---- MODULE Spec2Model ----
(***************************************************************************)
(* Render Job Orchestrator of Neura (backend/app/workers/tasks.py) together *)
(* with the router operations that act on the same Job row                  *)
(* (routers/jobs.py, routers/videos.py) and the Celery delivery rules of    *)
(* workers/celery_app.py.                                                   *)
(*                                                                          *)
(* The database holds one Job row, one Video row and the owner's credit     *)
(* balance.  Every Celery worker process runs video_generation_task with    *)
(* its own SQLAlchemy session: the objects it loaded stay in memory         *)
(* (expire_on_commit=False) and a commit writes exactly the columns whose   *)
(* in-memory value differs from the value the session last loaded or wrote. *)
(* Each action of a worker is the code between two suspension points of     *)
(* process().                                                               *)
(*                                                                          *)
(* The live and speech services have specifications of their own further    *)
(* down: the frame-emission loops (SpecPacing), the StreamManager of        *)
(* services/webrtc/stream.py (SpecLive, SpecQuality), the viseme lookups    *)
(* (SpecViseme), the word timings (SpecAlign), the lip-sync frames          *)
(* (SpecLipSync), one streamed response and its audio (SpecSpan), the       *)
(* render jobs of the avatar service (SpecRender) and the signaling server  *)
(* (SpecSignaling).  SpecPair runs two jobs of one user side by side.       *)
(***************************************************************************)
EXTENDS Integers, Sequences, FiniteSets, TLC

\* ---------------------------------------------------------------- bounds
MaxCrashes == 1          \* worker-lost events (re-deliveries) explored
MaxPolls == 1            \* "still rendering" answers explored per wait_for_render
MaxFrames == 2           \* frames explored per frame-emission loop
MaxTasks == 2            \* responses streamed in one session
MaxPhonemeLen == 3       \* longest phoneme code explored
MaxTextLen == 4          \* longest spoken text explored
MaxElapsed == 10         \* longest render-and-send time of one frame, in ticks

\* ------------------------------------------------------ program constants
task_max_retries == 3    \* @celery_app.task(bind=True, max_retries=3)
max_retries == 3         \* call_tts_service / call_avatar_service
retry_delay == 2         \* seconds
CharsPerSecond == 15     \* duration = len(script) / 15
DefaultEstimate == 10    \* job.credits_estimated or 10
VideoMinimum == 5        \* CREDIT_COSTS["video_minimum"]

Workers == {1, 2}        \* worker_concurrency=2
\* video.script: a two-word script and a whitespace-only one
Scripts == {<<"a", " ", "b">>, <<" ">>}
InitialCredits == {5, 10}

\* a duration in seconds is the fraction num/den
Dur(n, d) == [num |-> n, den |-> d]
NoDuration == Dur(0, 0)
TtsDurations == {Dur(2, 1)}                  \* X-Duration answers explored

TerminalStatuses == {"completed", "failed", "cancelled"}
ActiveStatuses == {"pending", "queued", "processing"}

NoResult == [video_url |-> "", audio_url |-> "", duration |-> NoDuration]

VARIABLES
    job,          \* the Job row as committed in the database
    jobInput,     \* job.input_data and credits_estimated, fixed at creation
    video,        \* the Video row as committed in the database
    userCredits,  \* users.credits as committed in the database
    broker,       \* Celery messages waiting for a worker
    storage,      \* object storage: key -> content
    tempDir,      \* does the scratch directory <root>/<job_id> exist
    pc,           \* per worker: position inside video_generation_task
    msg,          \* per worker: the unacknowledged message it executes
    sess,         \* per worker: the ORM objects of its session
    loc,          \* per worker: local variables of process()
    crashes,      \* number of worker-lost events so far
    hist,         \* history of the job, for the properties
    live,         \* services/webrtc: the StreamManager, its tasks, the frame loops
    speech,       \* services/tts and services/avatar: alignment and lip sync
    pair          \* two jobs of one user run by the two workers at once

vars == <<job, jobInput, video, userCredits, broker, storage, tempDir,
          pc, msg, sess, loc, crashes, hist, live, speech, pair>>

\* the variables of the live and speech services and of the two-job scenario,
\* which the single-job orchestrator and the routers do not touch
services == <<live, speech, pair>>

\* ------------------------------------------------------------- text helpers
\* str.strip() leaves nothing: the script is empty or only whitespace
IsBlank(s) == \A i \in 1..Len(s) : s[i] = " "

\* ---------------------------------------------------------------- session
\* flush of one ORM object: only the attributes that changed are written
Flush(db, mem, orig) ==
    [f \in DOMAIN db |-> IF mem[f] # orig[f] THEN mem[f] ELSE db[f]]

NoJobRow == [status |-> "absent", progress |-> 0, current_step |-> "",
             error |-> "", result |-> NoResult, credits_used |-> 0]

NoVideoMem == [status |-> "", video_url |-> "", audio_url |-> "",
               preview_url |-> "", duration |-> NoDuration, error_message |-> ""]

NoSession == [job |-> NoJobRow, jobOrig |-> NoJobRow,
              hasVideo |-> FALSE, video |-> NoVideoMem, videoOrig |-> NoVideoMem,
              hasUser |-> FALSE, credits |-> 0, creditsOrig |-> 0]

NoCall == [attempt |-> 0, posts |-> 0, sleeps |-> <<>>, outs |-> <<>>, result |-> "none"]

NoLocals == [has_temp |-> FALSE, script |-> <<>>, audio_duration |-> NoDuration,
             artifact |-> "", call |-> NoCall, polls |-> 0, status_reply |-> "",
             tts_failed |-> FALSE, render_failed |-> FALSE,
             exc |-> "", video_uploaded |-> FALSE, deductions_before |-> 0]

NoMsg == [retries |-> -1]

VideoColumns(v) == [status |-> v.status, video_url |-> v.video_url,
                    audio_url |-> v.audio_url, preview_url |-> v.preview_url,
                    duration |-> v.duration, error_message |-> v.error_message]

\* db.commit() of worker w: the new database rows
CommitJob(s) == Flush(job, s.job, s.jobOrig)
CommitVideo(s) ==
    IF s.hasVideo
    THEN [f \in DOMAIN video |->
            IF f \in DOMAIN s.video /\ s.video[f] # s.videoOrig[f]
            THEN s.video[f] ELSE video[f]]
    ELSE video
CommitCredits(s) ==
    IF s.hasUser /\ s.credits # s.creditsOrig THEN s.credits ELSE userCredits
Committed(s) == [s EXCEPT !.jobOrig = s.job, !.videoOrig = s.video,
                          !.creditsOrig = s.credits]

\* history kept along every commit: the statuses the Job row has had and the
\* number of commits that lowered the user's balance
Observe(h, newJob) ==
    [h EXCEPT !.everProcessing = h.everProcessing \/ newJob.status = "processing",
              !.everTerminal = h.everTerminal \/ newJob.status \in TerminalStatuses]

Charged(h, newCredits) ==
    [h EXCEPT !.deductions = IF newCredits < userCredits THEN @ + 1 ELSE @]

\* no stream manager, no frame loop, nothing to align
NoLive == [kind |-> "none"]
NoSpeech == [kind |-> "none"]
NoPair == [kind |-> "none"]

\* ------------------------------------------------------------------- Init
Init ==
    /\ job = NoJobRow
    /\ jobInput = [preview |-> FALSE, script |-> <<>>, credits_estimated |-> 0]
    /\ \E s \in Scripts :
         video = [exists |-> TRUE, script |-> s, status |-> "draft",
                  video_url |-> "", audio_url |-> "", preview_url |-> "",
                  duration |-> NoDuration, error_message |-> ""]
    /\ userCredits \in InitialCredits
    /\ broker = {}
    /\ storage = [k \in {"video", "audio"} |-> ""]
    /\ tempDir = FALSE
    /\ pc = [w \in Workers |-> "idle"]
    /\ msg = [w \in Workers |-> NoMsg]
    /\ sess = [w \in Workers |-> NoSession]
    /\ loc = [w \in Workers |-> NoLocals]
    /\ crashes = 0
    /\ hist = [everProcessing |-> FALSE, everTerminal |-> FALSE,
               deductions |-> 0, cancelledRunning |-> FALSE]
    /\ live = NoLive
    /\ speech = NoSpeech
    /\ pair = NoPair

\* ------------------------------------------------------------ script text
RECURSIVE Words(_)
\* str.split(): the maximal runs of non-whitespace characters
Words(s) ==
    IF s = <<>> THEN <<>>
    ELSE IF Head(s) = " " THEN Words(Tail(s))
    ELSE LET rest == Words(Tail(s))
         IN IF Len(s) > 1 /\ s[2] # " "
            THEN <<(<<Head(s)>> \o Head(rest))>> \o Tail(rest)
            ELSE <<(<<Head(s)>>)>> \o rest

RECURSIVE Join(_)
\* " ".join(words)
Join(ws) ==
    IF ws = <<>> THEN <<>>
    ELSE IF Len(ws) = 1 THEN Head(ws)
    ELSE Head(ws) \o <<" ">> \o Join(Tail(ws))

PreviewWords == 20
\* script_to_process of a preview: " ".join(video.script.split()[:20])
PreviewScript(s) ==
    LET ws == Words(s)
    IN Join(SubSeq(ws, 1, IF Len(ws) < PreviewWords THEN Len(ws) ELSE PreviewWords))

VideoPerMinute == 10
\* CreditManager.estimate_video_credits at the default resolution 1080p
EstimateVideoCredits(script_length) ==
    LET base == (script_length * VideoPerMinute) \div (CharsPerSecond * 60)
    IN IF base > VideoMinimum THEN base ELSE VideoMinimum

\* ------------------------------------------------------------ API routers
\* POST /videos/{id}/generate
GenerateVideo(preview, enqueued) ==
    LET est == IF preview THEN 0 ELSE EstimateVideoCredits(Len(video.script))
    IN /\ job.status = "absent"
       /\ video.exists
       /\ video.status \in {"draft", "failed"}
       /\ video.script # <<>>
       /\ userCredits >= est
       /\ job' = [NoJobRow EXCEPT !.status = "queued"]
       /\ jobInput' = [preview |-> preview,
                       script |-> IF preview THEN PreviewScript(video.script) ELSE <<>>,
                       credits_estimated |-> est]
       /\ video' = IF preview THEN video ELSE [video EXCEPT !.status = "queued"]
       /\ broker' = IF enqueued THEN {[retries |-> 0]} ELSE {}
       /\ UNCHANGED <<userCredits, storage, tempDir, pc, msg, sess, loc, crashes, hist>>
       /\ UNCHANGED services

\* POST /jobs/{id}/cancel
CancelJob ==
    /\ UNCHANGED services
    /\ job.status \in {"pending", "queued", "processing"}
    /\ job' = [job EXCEPT !.status = "cancelled"]
    /\ hist' = [hist EXCEPT !.everTerminal = TRUE,
                             !.cancelledRunning =
                                 @ \/ \E w \in Workers : pc[w] # "idle"]
    /\ UNCHANGED <<jobInput, video, userCredits, broker, storage, tempDir,
                   pc, msg, sess, loc, crashes>>

\* DELETE /videos/{id}; explored while no worker session holds the Video row
DeleteVideo ==
    /\ UNCHANGED services
    /\ video.exists
    /\ job.status # "absent"
    /\ \A w \in Workers : ~sess[w].hasVideo
    /\ video' = [video EXCEPT !.exists = FALSE]
    /\ UNCHANGED <<job, jobInput, userCredits, broker, storage, tempDir,
                   pc, msg, sess, loc, crashes, hist>>

\* ----------------------------------------------------------------- Celery
\* a worker process takes a message; with task_acks_late it stays unacknowledged.
\* The pool processes are interchangeable: the free process with the lowest
\* number takes the message.  A retry is published with a countdown of at
\* least 60 s: it is not delivered before its publisher has returned.
Deliver(w) ==
    /\ UNCHANGED services
    /\ pc[w] = "idle"
    /\ \A v \in Workers : pc[v] # "retried"
    /\ \A v \in Workers : v < w => pc[v] # "idle"
    /\ \E m \in broker :
         /\ broker' = broker \ {m}
         /\ msg' = [msg EXCEPT ![w] = m]
    /\ pc' = [pc EXCEPT ![w] = "start"]
    /\ loc' = [loc EXCEPT ![w].deductions_before = hist.deductions]
    /\ UNCHANGED <<job, jobInput, video, userCredits, storage, tempDir,
                   sess, crashes, hist>>

\* the worker process is lost in the middle of the task: with task_acks_late and
\* task_reject_on_worker_lost the message goes back to the queue
WorkerLost(w) ==
    /\ UNCHANGED services
    /\ pc[w] # "idle"
    /\ crashes < MaxCrashes
    /\ crashes' = crashes + 1
    /\ broker' = broker \cup {msg[w]}
    /\ msg' = [msg EXCEPT ![w] = NoMsg]
    /\ pc' = [pc EXCEPT ![w] = "idle"]
    /\ sess' = [sess EXCEPT ![w] = NoSession]
    /\ loc' = [loc EXCEPT ![w] = NoLocals]
    /\ UNCHANGED <<job, jobInput, video, userCredits, storage, tempDir, hist>>

\* ------------------------------------------- video_generation_task.process
\* the raise of an exception inside the try block of process()
Raise(w, message) ==
    /\ loc' = [loc EXCEPT ![w].exc = message]
    /\ pc' = [pc EXCEPT ![w] = "except"]

\* lines 373-385: load the Job, mark it processing, commit
LoadJob(w) ==
    /\ UNCHANGED services
    /\ pc[w] = "start"
    /\ LET s0 == [sess[w] EXCEPT !.job = job, !.jobOrig = job]
           s1 == [s0 EXCEPT !.job.status = "processing",
                            !.job.current_step = "Initializing"]
       IN /\ job' = CommitJob(s1)
          /\ sess' = [sess EXCEPT ![w] = Committed(s1)]
          /\ hist' = Observe(hist, CommitJob(s1))
    /\ pc' = [pc EXCEPT ![w] = "init"]
    /\ UNCHANGED <<jobInput, video, userCredits, broker, storage, tempDir,
                   msg, loc, crashes>>

\* estimated_credits = job.credits_estimated or 10
EstimatedCredits ==
    IF jobInput.credits_estimated = 0 THEN DefaultEstimate
    ELSE jobInput.credits_estimated

\* lines 390-432: load Video and User, check credits, create the scratch
\* directory, commit progress 0.1
InitJob(w) ==
    /\ UNCHANGED services
    /\ pc[w] = "init"
    /\ IF ~video.exists
       THEN /\ Raise(w, "Video not found")
            /\ UNCHANGED <<job, sess, tempDir, hist>>
       ELSE LET s0 == [sess[w] EXCEPT !.hasVideo = TRUE,
                                      !.video = VideoColumns(video),
                                      !.videoOrig = VideoColumns(video),
                                      !.hasUser = TRUE,
                                      !.credits = userCredits,
                                      !.creditsOrig = userCredits]
            IN IF userCredits < EstimatedCredits
               THEN /\ Raise(w, "Insufficient credits")
                    /\ sess' = [sess EXCEPT ![w] = s0]
                    /\ UNCHANGED <<job, tempDir, hist>>
               ELSE LET s1 == [s0 EXCEPT !.job.current_step = "Generating audio",
                                         !.job.progress = 1]
                    IN /\ tempDir' = TRUE
                       /\ job' = CommitJob(s1)
                       /\ sess' = [sess EXCEPT ![w] = Committed(s1)]
                       /\ hist' = Observe(hist, CommitJob(s1))
                       /\ loc' = [loc EXCEPT ![w].has_temp = TRUE,
                                             ![w].script =
                                                 IF jobInput.script # <<>>
                                                 THEN jobInput.script
                                                 ELSE video.script]
                       /\ pc' = [pc EXCEPT ![w] = "validate"]
    /\ UNCHANGED <<jobInput, video, userCredits, broker, storage, msg, crashes>>

\* lines 434-445: the script check
ValidateScript(w) ==
    /\ UNCHANGED services
    /\ pc[w] = "validate"
    /\ IF loc[w].script = <<>> \/ IsBlank(loc[w].script)
       THEN Raise(w, "Script is empty or missing")
       ELSE /\ pc' = [pc EXCEPT ![w] = "tts"]
            /\ UNCHANGED loc
    /\ UNCHANGED <<job, jobInput, video, userCredits, broker, storage, tempDir,
                   msg, sess, crashes, hist>>

\* ------------------------------------ call_tts_service / call_avatar_service
TransientOutcomes == {"503", "timeout", "connect_error"}
\* what one POST can end in: a response status, or an exception of httpx
CallOutcomes == {"200", "500"} \cup TransientOutcomes \cup {"other_error"}

\* the same loop sleeping retry_delay before every retry
RetryLoopStep_FlatDelay(c, o) ==
    LET posted == [c EXCEPT !.posts = @ + 1, !.outs = Append(@, o)]
    IN IF o = "200" THEN [posted EXCEPT !.result = "ok"]
       ELSE IF o \in TransientOutcomes /\ c.attempt < max_retries - 1
       THEN [posted EXCEPT !.sleeps = Append(@, retry_delay),
                           !.attempt = @ + 1]
       ELSE [posted EXCEPT !.result = "error"]

\* one iteration of "for attempt in range(max_retries)": the POST and what the
\* code does with its outcome o
RetryLoopStep(c, o) ==
    LET posted == [c EXCEPT !.posts = @ + 1, !.outs = Append(@, o)]
    IN IF o = "200" THEN [posted EXCEPT !.result = "ok"]
       ELSE IF o \in TransientOutcomes /\ c.attempt < max_retries - 1
       THEN [posted EXCEPT !.sleeps = Append(@, retry_delay * (c.attempt + 1)),
                           !.attempt = @ + 1]
       ELSE [posted EXCEPT !.result = "error"]

RECURSIVE RunCall(_, _)
\* the whole loop, fed with the outcomes of its successive POSTs; outcomes after
\* the return or raise of the call are not consumed
RunCall(c, outs) ==
    IF outs = <<>> \/ c.result # "none" THEN c
    ELSE RunCall(RetryLoopStep(c, Head(outs)), Tail(outs))

\* the outcome sequences one invocation can meet: the call ends on the last one
CallRuns ==
    {outs \in UNION {[1..n -> CallOutcomes] : n \in 1..max_retries} :
        /\ RunCall(NoCall, outs).result # "none"
        /\ RunCall(NoCall, SubSeq(outs, 1, Len(outs) - 1)).result = "none"}

\* how an invocation can end: "ok" (it returned) or "error" (it raised)
CallResults == {RunCall(NoCall, outs).result : outs \in CallRuns}

\* the estimate without the division by the speaking rate
FallbackDuration_NoRate(script) == Dur(Len(script), 1)

\* duration = len(script) / 15
FallbackDuration(script) == Dur(Len(script), CharsPerSecond)

\* lines 460-516: call_tts_service ending in r; keep the
\* synthesized audio of duration d, or on any exception of the call write
\* silence of the estimated duration; commit progress 0.3
TtsDone(w, r, d) ==
    /\ UNCHANGED services
    /\ pc[w] = "tts"
    /\ LET failed == r = "error"
           s1 == [sess[w] EXCEPT !.job.progress = 3]
       IN /\ loc' = [loc EXCEPT ![w].tts_failed = failed,
                                ![w].audio_duration =
                                    IF failed THEN FallbackDuration(loc[w].script) ELSE d]
          /\ job' = CommitJob(s1)
          /\ sess' = [sess EXCEPT ![w] = Committed(s1)]
          /\ hist' = Observe(hist, CommitJob(s1))
    /\ pc' = [pc EXCEPT ![w] = "render_begin"]
    /\ UNCHANGED <<jobInput, video, userCredits, broker, storage, tempDir,
                   msg, crashes>>

\* lines 521-523
RenderBegin(w) ==
    /\ UNCHANGED services
    /\ pc[w] = "render_begin"
    /\ LET s1 == [sess[w] EXCEPT !.job.current_step = "Rendering avatar",
                                 !.job.progress = 4]
       IN /\ job' = CommitJob(s1)
          /\ sess' = [sess EXCEPT ![w] = Committed(s1)]
          /\ hist' = Observe(hist, CommitJob(s1))
    /\ pc' = [pc EXCEPT ![w] = "avatar"]
    /\ UNCHANGED <<jobInput, video, userCredits, broker, storage, tempDir,
                   msg, loc, crashes>>

\* lines 543-572 and 585: call_avatar_service ending in r; the
\* render was accepted (commit progress 0.5), or the call raised and the except
\* branch of the render step takes over
AvatarDone(w, r) ==
    /\ UNCHANGED services
    /\ pc[w] = "avatar"
    /\ IF r = "ok"
       THEN LET s1 == [sess[w] EXCEPT !.job.current_step = "Processing frames",
                                      !.job.progress = 5]
            IN /\ job' = CommitJob(s1)
               /\ sess' = [sess EXCEPT ![w] = Committed(s1)]
               /\ hist' = Observe(hist, CommitJob(s1))
               /\ pc' = [pc EXCEPT ![w] = "poll"]
               /\ UNCHANGED loc
       ELSE /\ loc' = [loc EXCEPT ![w].render_failed = TRUE]
            /\ pc' = [pc EXCEPT ![w] = "fallback"]
            /\ UNCHANGED <<job, sess, hist>>
    /\ UNCHANGED <<jobInput, video, userCredits, broker, storage, tempDir,
                   msg, crashes>>

\* what one iteration of wait_for_render meets: its deadline has passed, or
\* GET /render/{job_id}/status answers with a status other than 200
\* (get_render_status answers 404 until the renderer has recorded a progress
\* entry), or with a completed, failed or running render
PollAnswers == {"deadline", "not_200", "completed", "failed", "running"}

\* wait_for_render: one iteration of the polling loop; an exception it raises
\* is caught by the except branch of the render step
WaitForRender(w, a) ==
    /\ UNCHANGED services
    /\ pc[w] = "poll"
    /\ a = "deadline" => loc[w].polls > 0
    /\ a = "running" => loc[w].polls < MaxPolls
    /\ IF a = "running"
       THEN /\ loc' = [loc EXCEPT ![w].polls = @ + 1]
            /\ pc' = pc
       ELSE IF a = "completed"
       THEN /\ loc' = [loc EXCEPT ![w].polls = 0]
            /\ pc' = [pc EXCEPT ![w] = "download"]
       ELSE /\ loc' = [loc EXCEPT ![w].polls = 0, ![w].render_failed = TRUE,
                                ![w].status_reply = a]
            /\ pc' = [pc EXCEPT ![w] = "fallback"]
    /\ UNCHANGED <<job, jobInput, video, userCredits, broker, storage, tempDir,
                   msg, sess, crashes, hist>>

DownloadAnswers == {"ok", "http_error", "exception"}

\* lines 576-581: GET .../download; response.content is written whatever the
\* status code of the response is
DownloadRender(w, a) ==
    /\ UNCHANGED services
    /\ pc[w] = "download"
    /\ IF a = "exception"
       THEN /\ loc' = [loc EXCEPT ![w].render_failed = TRUE]
            /\ pc' = [pc EXCEPT ![w] = "fallback"]
       ELSE /\ loc' = [loc EXCEPT ![w].artifact =
                          IF a = "ok" THEN "rendered" ELSE "error_body"]
            /\ pc' = [pc EXCEPT ![w] = "rendered"]
    /\ UNCHANGED <<job, jobInput, video, userCredits, broker, storage, tempDir,
                   msg, sess, crashes, hist>>

\* lines 585-616: placeholder clip made by ffmpeg, or an empty file when
\* ffmpeg fails too
FallbackVideo(w, ffmpeg_ok) ==
    /\ UNCHANGED services
    /\ pc[w] = "fallback"
    /\ loc' = [loc EXCEPT ![w].artifact = IF ffmpeg_ok THEN "placeholder" ELSE "empty",
                          ![w].status_reply = ""]
    /\ pc' = [pc EXCEPT ![w] = "rendered"]
    /\ UNCHANGED <<job, jobInput, video, userCredits, broker, storage, tempDir,
                   msg, sess, crashes, hist>>

\* lines 618-619
AfterRender(w) ==
    /\ UNCHANGED services
    /\ pc[w] = "rendered"
    /\ LET s1 == [sess[w] EXCEPT !.job.progress = 8]
       IN /\ job' = CommitJob(s1)
          /\ sess' = [sess EXCEPT ![w] = Committed(s1)]
          /\ hist' = Observe(hist, CommitJob(s1))
    /\ pc' = [pc EXCEPT ![w] = "upload_begin"]
    /\ UNCHANGED <<jobInput, video, userCredits, broker, storage, tempDir,
                   msg, loc, crashes>>

\* lines 624-626
UploadBegin(w) ==
    /\ UNCHANGED services
    /\ pc[w] = "upload_begin"
    /\ LET s1 == [sess[w] EXCEPT !.job.current_step = "Uploading",
                                 !.job.progress = 9]
       IN /\ job' = CommitJob(s1)
          /\ sess' = [sess EXCEPT ![w] = Committed(s1)]
          /\ hist' = Observe(hist, CommitJob(s1))
    /\ pc' = [pc EXCEPT ![w] = "upload_video"]
    /\ UNCHANGED <<jobInput, video, userCredits, broker, storage, tempDir,
                   msg, loc, crashes>>

UploadErrors == {"disk full", "bucket unreachable"}
VideoUrl == "neura-videos/videos/u/v.mp4"
AudioUrl == "neura-videos/audio/u/v.wav"

\* lines 631-636: storage_client.upload_file of output.mp4
UploadVideo(w, r) ==
    /\ UNCHANGED services
    /\ pc[w] = "upload_video"
    /\ IF r = "ok"
       THEN /\ storage' = [storage EXCEPT !["video"] = loc[w].artifact]
            /\ loc' = [loc EXCEPT ![w].video_uploaded = TRUE]
            /\ pc' = [pc EXCEPT ![w] = "upload_audio"]
       ELSE /\ Raise(w, r)
            /\ UNCHANGED storage
    /\ UNCHANGED <<job, jobInput, video, userCredits, broker, tempDir,
                   msg, sess, crashes, hist>>

\* lines 639-644: storage_client.upload_file of audio.wav
UploadAudio(w, r) ==
    /\ UNCHANGED services
    /\ pc[w] = "upload_audio"
    /\ IF r = "ok"
       THEN /\ storage' = [storage EXCEPT !["audio"] = "audio.wav"]
            /\ pc' = [pc EXCEPT ![w] = "finalize"]
            /\ UNCHANGED loc
       ELSE /\ Raise(w, r)
            /\ UNCHANGED storage
    /\ UNCHANGED <<job, jobInput, video, userCredits, broker, tempDir,
                   msg, sess, crashes, hist>>

\* lines 648-706: deduct the credits, update Video and Job, commit
Finalize(w) ==
    /\ UNCHANGED services
    /\ pc[w] = "finalize"
    /\ LET is_preview == jobInput.preview
           s0 == sess[w]
           s1 == IF s0.hasUser /\ ~is_preview
                 THEN [s0 EXCEPT !.credits = @ - EstimatedCredits] ELSE s0
           s2 == IF is_preview
                 THEN [s1 EXCEPT !.video.preview_url = VideoUrl]
                 ELSE [s1 EXCEPT !.video.status = "completed",
                                 !.video.video_url = VideoUrl,
                                 !.video.audio_url = AudioUrl,
                                 !.video.duration = loc[w].audio_duration]
           s3 == [s2 EXCEPT !.job.status = "completed",
                            !.job.progress = 10,
                            !.job.current_step = "Complete",
                            !.job.result = [video_url |-> VideoUrl,
                                            audio_url |-> AudioUrl,
                                            duration |-> loc[w].audio_duration],
                            !.job.credits_used =
                                IF is_preview THEN 0 ELSE EstimatedCredits]
       IN /\ job' = CommitJob(s3)
          /\ video' = CommitVideo(s3)
          /\ userCredits' = CommitCredits(s3)
          /\ sess' = [sess EXCEPT ![w] = Committed(s3)]
          /\ hist' = Charged(Observe(hist, CommitJob(s3)), CommitCredits(s3))
    /\ pc' = [pc EXCEPT ![w] = "finally"]
    /\ UNCHANGED <<jobInput, broker, storage, tempDir, msg, loc, crashes>>

\* the except block recording a fixed text instead of str(e)
Except_FixedText(w) ==
    /\ UNCHANGED services
    /\ pc[w] = "except"
    /\ LET s0 == sess[w]
           s1 == [s0 EXCEPT !.job.status = "failed",
                            !.job.error = "Video generation failed"]
           s2 == IF s0.hasVideo
                 THEN [s1 EXCEPT !.video.status = "failed",
                                 !.video.error_message = "Video generation failed"]
                 ELSE s1
       IN /\ job' = CommitJob(s2)
          /\ video' = CommitVideo(s2)
          /\ userCredits' = CommitCredits(s2)
          /\ sess' = [sess EXCEPT ![w] = Committed(s2)]
          /\ hist' = Charged(Observe(hist, CommitJob(s2)), CommitCredits(s2))
    /\ pc' = [pc EXCEPT ![w] = "finally"]
    /\ UNCHANGED <<jobInput, broker, storage, tempDir, msg, loc, crashes>>

\* lines 708-722: record the failure on Job and Video, commit, re-raise
Except(w) ==
    /\ UNCHANGED services
    /\ pc[w] = "except"
    /\ LET s0 == sess[w]
           s1 == [s0 EXCEPT !.job.status = "failed", !.job.error = loc[w].exc]
           s2 == IF s0.hasVideo
                 THEN [s1 EXCEPT !.video.status = "failed",
                                 !.video.error_message = loc[w].exc]
                 ELSE s1
       IN /\ job' = CommitJob(s2)
          /\ video' = CommitVideo(s2)
          /\ userCredits' = CommitCredits(s2)
          /\ sess' = [sess EXCEPT ![w] = Committed(s2)]
          /\ hist' = Charged(Observe(hist, CommitJob(s2)), CommitCredits(s2))
    /\ pc' = [pc EXCEPT ![w] = "finally"]
    /\ UNCHANGED <<jobInput, broker, storage, tempDir, msg, loc, crashes>>

\* lines 724-732: remove the scratch directory this execution created
Finally(w) ==
    /\ UNCHANGED services
    /\ pc[w] = "finally"
    /\ tempDir' = IF loc[w].has_temp THEN FALSE ELSE tempDir
    /\ pc' = [pc EXCEPT ![w] = "return"]
    /\ UNCHANGED <<job, jobInput, video, userCredits, broker, storage,
                   msg, sess, loc, crashes, hist>>

\* lines 734-738: self.retry(exc=e, countdown=...) publishes the task again
\* until max_retries is used up; the message of this execution is still
\* unacknowledged while it does
Retry(w) ==
    /\ UNCHANGED services
    /\ pc[w] = "return"
    /\ loc[w].exc # "" /\ msg[w].retries < task_max_retries
    /\ broker' = broker \cup {[retries |-> msg[w].retries + 1]}
    /\ pc' = [pc EXCEPT ![w] = "retried"]
    /\ UNCHANGED <<job, jobInput, video, userCredits, storage, tempDir,
                   msg, sess, loc, crashes, hist>>

\* the task has returned or raised (Retry, or the exception once the retries
\* are used up): with task_acks_late the message is acknowledged now
TaskReturn(w) ==
    /\ UNCHANGED services
    /\ \/ pc[w] = "retried"
       \/ /\ pc[w] = "return"
          /\ ~(loc[w].exc # "" /\ msg[w].retries < task_max_retries)
    /\ msg' = [msg EXCEPT ![w] = NoMsg]
    /\ sess' = [sess EXCEPT ![w] = NoSession]
    /\ loc' = [loc EXCEPT ![w] = NoLocals]
    /\ pc' = [pc EXCEPT ![w] = "idle"]
    /\ UNCHANGED <<job, jobInput, video, userCredits, broker, storage, tempDir,
                   crashes, hist>>

\* process_pending_jobs, every minute from the beat schedule: each job still
\* "pending" after 5 minutes is queued again
ProcessPendingJobs ==
    /\ UNCHANGED services
    /\ IF job.status = "pending"
       THEN /\ broker' = broker \cup {[retries |-> 0]}
            /\ job' = [job EXCEPT !.status = "queued"]
       ELSE UNCHANGED <<job, broker>>
    /\ UNCHANGED <<jobInput, video, userCredits, storage, tempDir,
                   pc, msg, sess, loc, crashes, hist>>

\* ------------------------------------------------------------ specification
\* worker loss is explored up to the publication of a retry; SpecDelivery
\* below explores the loss of a worker that has published its retry
Next ==
    \/ \E p \in BOOLEAN, e \in BOOLEAN : GenerateVideo(p, e)
    \/ CancelJob
    \/ DeleteVideo
    \/ \E w \in Workers : Deliver(w)
    \/ \E w \in Workers : pc[w] # "retried" /\ WorkerLost(w)
    \/ \E w \in Workers : LoadJob(w)
    \/ \E w \in Workers : InitJob(w)
    \/ \E w \in Workers : ValidateScript(w)
    \/ \E w \in Workers, r \in CallResults, d \in TtsDurations : TtsDone(w, r, d)
    \/ \E w \in Workers : RenderBegin(w)
    \/ \E w \in Workers, r \in CallResults : AvatarDone(w, r)
    \/ \E w \in Workers, a \in PollAnswers : WaitForRender(w, a)
    \/ \E w \in Workers, a \in DownloadAnswers : DownloadRender(w, a)
    \/ \E w \in Workers, ok \in BOOLEAN : FallbackVideo(w, ok)
    \/ \E w \in Workers : AfterRender(w)
    \/ \E w \in Workers : UploadBegin(w)
    \/ \E w \in Workers, r \in {"ok"} \cup UploadErrors : UploadVideo(w, r)
    \/ \E w \in Workers, r \in {"ok"} \cup UploadErrors : UploadAudio(w, r)
    \/ \E w \in Workers : Finalize(w)
    \/ \E w \in Workers : Except(w)
    \/ \E w \in Workers : Finally(w)
    \/ \E w \in Workers : Retry(w)
    \/ \E w \in Workers : TaskReturn(w)
    \/ ProcessPendingJobs

Spec == Init /\ [][Next]_vars

\* the beat schedule runs process_pending_jobs every minute, and a free worker
\* takes a waiting message and begins the task
SpecBeat ==
    /\ Spec
    /\ WF_vars(ProcessPendingJobs)
    /\ \A w \in Workers : WF_vars(Deliver(w)) /\ WF_vars(LoadJob(w))

\* --------------------------------------- the service calls, POST by POST
\* call_tts_service: one iteration of the retry loop
CallTtsService(w, o) ==
    /\ UNCHANGED services
    /\ pc[w] = "tts"
    /\ loc[w].call.result = "none"
    /\ loc' = [loc EXCEPT ![w].call = RetryLoopStep(@, o)]
    /\ UNCHANGED <<job, jobInput, video, userCredits, broker, storage, tempDir,
                   pc, msg, sess, crashes, hist>>

\* call_avatar_service: one iteration of the retry loop
CallAvatarService(w, o) ==
    /\ UNCHANGED services
    /\ pc[w] = "avatar"
    /\ loc[w].call.result = "none"
    /\ loc' = [loc EXCEPT ![w].call = RetryLoopStep(@, o)]
    /\ UNCHANGED <<job, jobInput, video, userCredits, broker, storage, tempDir,
                   pc, msg, sess, crashes, hist>>

\* a worker about to call the speech service (at = "tts") or the renderer
\* (at = "avatar") for a full job of a user with 10 credits
InitCall ==
    \E at \in {"tts", "avatar"} :
        LET row == [NoJobRow EXCEPT
                       !.status = "processing",
                       !.progress = IF at = "tts" THEN 1 ELSE 4,
                       !.current_step = IF at = "tts" THEN "Generating audio"
                                        ELSE "Rendering avatar"]
            v == [exists |-> TRUE, script |-> <<"a", " ", "b">>, status |-> "queued",
                  video_url |-> "", audio_url |-> "", preview_url |-> "",
                  duration |-> NoDuration, error_message |-> ""]
        IN /\ job = row
           /\ jobInput = [preview |-> FALSE, script |-> <<>>,
                          credits_estimated |-> VideoMinimum]
           /\ video = v
           /\ userCredits = 10
           /\ broker = {}
           /\ storage = [k \in {"video", "audio"} |-> ""]
           /\ tempDir = TRUE
           /\ pc = [w \in Workers |-> IF w = 1 THEN at ELSE "idle"]
           /\ msg = [w \in Workers |-> IF w = 1 THEN [retries |-> 0] ELSE NoMsg]
           /\ sess = [w \in Workers |->
                        IF w = 1
                        THEN [job |-> row, jobOrig |-> row,
                              hasVideo |-> TRUE, video |-> VideoColumns(v),
                              videoOrig |-> VideoColumns(v),
                              hasUser |-> TRUE, credits |-> 10, creditsOrig |-> 10]
                        ELSE NoSession]
           /\ loc = [w \in Workers |->
                        IF w = 1
                        THEN [NoLocals EXCEPT
                                 !.has_temp = TRUE, !.script = <<"a", " ", "b">>,
                                 !.audio_duration =
                                     IF at = "tts" THEN NoDuration ELSE Dur(2, 1)]
                        ELSE NoLocals]
           /\ crashes = 0
           /\ hist = [everProcessing |-> TRUE, everTerminal |-> FALSE,
                      deductions |-> 0, cancelledRunning |-> FALSE]
           /\ live = NoLive
           /\ speech = NoSpeech
           /\ pair = NoPair

NextCall ==
    \/ \E w \in Workers, o \in CallOutcomes : CallTtsService(w, o)
    \/ \E w \in Workers, o \in CallOutcomes : CallAvatarService(w, o)

SpecCall == InitCall /\ [][NextCall]_vars

\* ------------------------------------------------- delivery of the message
\* The life of the Celery message of a job while the object storage is down:
\* the speech is synthesized, the renderer is unreachable and the placeholder
\* clip is made, the upload raises and the task asks for a retry.  A worker
\* can be lost at any point, also between the publication of the retry and
\* the acknowledgement of its own message.
InitDelivery ==
    /\ Init
    /\ ~IsBlank(video.script)
    /\ userCredits = 10

NextDelivery ==
    \/ \E p \in BOOLEAN, e \in BOOLEAN : GenerateVideo(p, e)
    \/ ProcessPendingJobs
    \/ \E w \in Workers : Deliver(w)
    \/ \E w \in Workers : WorkerLost(w)
    \/ \E w \in Workers : LoadJob(w)
    \/ \E w \in Workers : InitJob(w)
    \/ \E w \in Workers : ValidateScript(w)
    \/ \E w \in Workers, d \in TtsDurations : TtsDone(w, "ok", d)
    \/ \E w \in Workers : RenderBegin(w)
    \/ \E w \in Workers : AvatarDone(w, "error")
    \/ \E w \in Workers : FallbackVideo(w, TRUE)
    \/ \E w \in Workers : AfterRender(w)
    \/ \E w \in Workers : UploadBegin(w)
    \/ \E w \in Workers : UploadVideo(w, "bucket unreachable")
    \/ \E w \in Workers : Except(w)
    \/ \E w \in Workers : Finally(w)
    \/ \E w \in Workers : Retry(w)
    \/ \E w \in Workers : TaskReturn(w)

SpecDelivery == InitDelivery /\ [][NextDelivery]_vars

\* ============================================================ live services
\* the orchestrator at rest: no job, no message, no worker at work
NoPipeline ==
    /\ job = NoJobRow
    /\ jobInput = [preview |-> FALSE, script |-> <<>>, credits_estimated |-> 0]
    /\ video = [exists |-> FALSE, script |-> <<>>, status |-> "draft",
                video_url |-> "", audio_url |-> "", preview_url |-> "",
                duration |-> NoDuration, error_message |-> ""]
    /\ userCredits = 0
    /\ broker = {}
    /\ storage = [k \in {"video", "audio"} |-> ""]
    /\ tempDir = FALSE
    /\ pc = [w \in Workers |-> "idle"]
    /\ msg = [w \in Workers |-> NoMsg]
    /\ sess = [w \in Workers |-> NoSession]
    /\ loc = [w \in Workers |-> NoLocals]
    /\ crashes = 0
    /\ hist = [everProcessing |-> FALSE, everTerminal |-> FALSE,
               deductions |-> 0, cancelledRunning |-> FALSE]

Pipeline == <<job, jobInput, video, userCredits, broker, storage, tempDir,
              pc, msg, sess, loc, crashes, hist>>

Max(a, b) == IF a > b THEN a ELSE b
Min(a, b) == IF a < b THEN a ELSE b

\* ---------------------------------------------------- frame-emission loops
\* Time is counted in ticks of 1/120 s, so that 1/fps is a whole number of
\* ticks for every frame rate of the quality ladder.
TicksPerSecond == 120
FpsValues == {15, 24, 30}
\* frame_interval = 1.0 / fps
FrameInterval(fps) == TicksPerSecond \div fps

FrameLoops == {"_stream_response", "stream_response", "render_stream"}

InitPacing ==
    /\ NoPipeline
    /\ speech = NoSpeech
    /\ pair = NoPair
    /\ \E l \in FrameLoops, f \in FpsValues :
         live = [kind |-> "loop", loop |-> l, fps |-> f, frame |-> 0,
                 elapsed |-> 0, sleep |-> 0, gap |-> 0]

\* one pass of a loop whose frame took `elapsed` and which then sleeps `sleep`:
\* the next frame starts elapsed + sleep after this one
Paced(elapsed, sleep) ==
    [live EXCEPT !.frame = @ + 1, !.elapsed = elapsed, !.sleep = sleep,
                 !.gap = elapsed + sleep]

\* StreamManager._stream_response, lines 446-479: render, send, then
\* sleep_time = max(0, frame_interval - elapsed)
StreamResponseFrame(elapsed) ==
    /\ live.kind = "loop" /\ live.loop = "_stream_response"
    /\ live.frame < MaxFrames
    /\ live' = Paced(elapsed, Max(0, FrameInterval(live.fps) - elapsed))
    /\ UNCHANGED <<Pipeline, speech, pair>>

\* LiveAvatarPipeline.stream_response, lines 184-202: render, yield, then
\* asyncio.sleep(frame_interval)
PipelineStreamFrame(elapsed) ==
    /\ live.kind = "loop" /\ live.loop = "stream_response"
    /\ live.frame < MaxFrames
    /\ live' = Paced(elapsed, FrameInterval(live.fps))
    /\ UNCHANGED <<Pipeline, speech, pair>>

\* AvatarRenderer.render_stream, lines 685-709: render, yield, then
\* asyncio.sleep(frame_interval)
RenderStreamFrame(elapsed) ==
    /\ live.kind = "loop" /\ live.loop = "render_stream"
    /\ live.frame < MaxFrames
    /\ live' = Paced(elapsed, FrameInterval(live.fps))
    /\ UNCHANGED <<Pipeline, speech, pair>>

NextPacing ==
    \/ \E e \in 0..MaxElapsed : StreamResponseFrame(e)
    \/ \E e \in 0..MaxElapsed : PipelineStreamFrame(e)
    \/ \E e \in 0..MaxElapsed : RenderStreamFrame(e)

SpecPacing == InitPacing /\ [][NextPacing]_vars

\* ------------------------------------------------------------ StreamManager
\* One stream session id.  `registered` says whether self.sessions holds it;
\* the StreamSession object outlives its entry in the tasks that reference it.
Quality(w, h, f, b) == [width |-> w, height |-> h, fps |-> f, video_bitrate |-> b]
\* StreamConfig()
DefaultStreamConfig == Quality(1280, 720, 30, 2000000)

\* available-bandwidth reports explored, in bits per second
Bandwidths == {0, 499999, 500000, 999999, 1000000, 2499999, 2500000, 4000000}

SelectQuality_SwappedRungs(bandwidth) ==
    IF bandwidth < 500000 THEN Quality(854, 480, 24, 700000)
    ELSE IF bandwidth < 1000000 THEN Quality(640, 360, 15, 300000)
    ELSE IF bandwidth < 2500000 THEN Quality(1280, 720, 30, 1500000)
    ELSE Quality(1920, 1080, 30, 3000000)

\* adjust_quality, lines 544-563: the preset chosen for a bandwidth
SelectQuality(bandwidth) ==
    IF bandwidth < 500000 THEN Quality(640, 360, 15, 300000)
    ELSE IF bandwidth < 1000000 THEN Quality(854, 480, 24, 700000)
    ELSE IF bandwidth < 2500000 THEN Quality(1280, 720, 30, 1500000)
    ELSE Quality(1920, 1080, 30, 3000000)

Tasks == 1..MaxTasks
\* left: the lip-sync frames of the response that the loop has not reached yet
NoTask == [pc |-> "none", left |-> 0, after_stop |-> 0]

InitLive ==
    /\ NoPipeline
    /\ speech = NoSpeech
    /\ pair = NoPair
    /\ live = [kind |-> "manager",
               registered |-> FALSE,
               session |-> [is_active |-> FALSE, config |-> DefaultStreamConfig],
               pending |-> 0,           \* process_message calls awaiting process_text
               tasks |-> [t \in Tasks |-> NoTask],
               started |-> FALSE,       \* start_stream has been called
               stopped |-> FALSE,       \* stop_stream has returned
               bandwidth |-> -1,        \* the last bandwidth adjust_quality applied
               previous |-> [bandwidth |-> -1, config |-> DefaultStreamConfig],
                                       \* the report before it and what it selected
               failures |-> 0]          \* consecutive frames that failed to render

\* start_stream, lines 324-352
StartStream ==
    /\ live.kind = "manager" /\ ~live.started
    /\ live' = [live EXCEPT !.registered = TRUE, !.started = TRUE,
                            !.session.is_active = TRUE]
    /\ UNCHANGED <<Pipeline, speech, pair>>

\* stop_stream, lines 354-386: self._frame_generators is never filled, so
\* there is no task to cancel and the call does not suspend
StopStream ==
    /\ live.kind = "manager" /\ live.registered
    /\ live' = [live EXCEPT !.registered = FALSE, !.stopped = TRUE,
                            !.session.is_active = FALSE]
    /\ UNCHANGED <<Pipeline, speech, pair>>

\* adjust_quality, lines 534-572
AdjustQuality(bandwidth) ==
    /\ live.kind = "manager" /\ live.registered
    /\ live' = [live EXCEPT !.session.config = SelectQuality(bandwidth),
                            !.bandwidth = bandwidth,
                            !.previous = [bandwidth |-> live.bandwidth,
                                          config |-> live.session.config]]
    /\ UNCHANGED <<Pipeline, speech, pair>>

\* process_message, lines 388-404: up to the await of process_text
ProcessMessage ==
    /\ live.kind = "manager" /\ live.registered /\ live.session.is_active
    /\ live.pending + Cardinality({t \in Tasks : live.tasks[t].pc # "none"}) < MaxTasks
    /\ live' = [live EXCEPT !.pending = @ + 1]
    /\ UNCHANGED <<Pipeline, speech, pair>>

\* process_message, lines 405-425: process_text has answered with n lip-sync
\* frames; asyncio.create_task(self._stream_response(session, response))
ProcessTextDone(n) ==
    /\ live.kind = "manager" /\ live.pending > 0
    /\ LET free == {t \in Tasks : live.tasks[t].pc = "none"}
           t == CHOOSE x \in free : \A y \in free : x <= y
       IN live' = IF n = 0
                  THEN [live EXCEPT !.pending = @ - 1]
                  ELSE [live EXCEPT !.pending = @ - 1,
                                    !.tasks[t] = [NoTask EXCEPT !.pc = "audio", !.left = n]]
    /\ UNCHANGED <<Pipeline, speech, pair>>

\* _stream_response, lines 435-444: the audio callback has returned
StreamResponseAudio(t) ==
    /\ live.kind = "manager" /\ live.tasks[t].pc = "audio"
    /\ live' = [live EXCEPT !.tasks[t].pc = "loop"]
    /\ UNCHANGED <<Pipeline, speech, pair>>

\* the number of consecutive frame failures a live session tolerates
FailureThreshold == 2
\* one more consecutive failure; counted up to the first one over the threshold
Failed(failures) ==
    IF failures > FailureThreshold THEN failures ELSE failures + 1

StreamResponseRender_NoActiveCheck(t, rendered) ==
    /\ live.kind = "manager" /\ live.tasks[t].pc = "loop"
    /\ live' = IF live.tasks[t].left = 0
               THEN [live EXCEPT !.tasks[t].pc = "done"]
               ELSE IF rendered
               THEN [live EXCEPT !.tasks[t].pc = "send"]
               ELSE [live EXCEPT !.tasks[t].pc = "sleep", !.failures = Failed(@)]
    /\ UNCHANGED <<Pipeline, speech, pair>>

\* _stream_response, lines 446-465: the next lip-sync frame, the is_active
\* check, _generate_simple_frame (b"" when it failed) and the start of the
\* frame callback
StreamResponseRender(t, rendered) ==
    /\ live.kind = "manager" /\ live.tasks[t].pc = "loop"
    /\ live' = IF live.tasks[t].left = 0 \/ ~live.session.is_active
               THEN [live EXCEPT !.tasks[t].pc = "done"]
               ELSE IF rendered
               THEN [live EXCEPT !.tasks[t].pc = "send"]
               ELSE [live EXCEPT !.tasks[t].pc = "sleep", !.failures = Failed(@)]
    /\ UNCHANGED <<Pipeline, speech, pair>>

\* _stream_response, lines 466-473: the frame callback has returned (the
\* counters frames_sent and bytes_sent of the session are not kept)
StreamResponseSend(t) ==
    /\ live.kind = "manager" /\ live.tasks[t].pc = "send"
    /\ live' = [live EXCEPT !.tasks[t].pc = "sleep",
                            !.tasks[t].after_stop = IF live.stopped THEN @ + 1 ELSE @,
                            !.failures = 0]
    /\ UNCHANGED <<Pipeline, speech, pair>>

\* _stream_response, lines 475-479: frame rate control
StreamResponseSleep(t) ==
    /\ live.kind = "manager" /\ live.tasks[t].pc = "sleep"
    /\ live' = [live EXCEPT !.tasks[t].pc = "loop", !.tasks[t].left = @ - 1]
    /\ UNCHANGED <<Pipeline, speech, pair>>

\* the steps of the task t that runs _stream_response
StreamResponse(t) ==
    \/ StreamResponseAudio(t)
    \/ \E rendered \in BOOLEAN : StreamResponseRender(t, rendered)
    \/ StreamResponseSend(t)
    \/ StreamResponseSleep(t)

NextLive ==
    \/ StartStream
    \/ StopStream
    \/ ProcessMessage
    \/ \E n \in 0..MaxFrames : ProcessTextDone(n)
    \/ \E t \in Tasks : StreamResponseAudio(t)
    \/ \E t \in Tasks, rendered \in BOOLEAN : StreamResponseRender(t, rendered)
    \/ \E t \in Tasks : StreamResponseSend(t)
    \/ \E t \in Tasks : StreamResponseSleep(t)

SpecLive == InitLive /\ [][NextLive]_vars

\* the event loop runs every task that is ready, and the callbacks return
SpecLiveFair == SpecLive /\ \A t \in Tasks : WF_vars(StreamResponse(t))

\* the bandwidth reports of a session, from its start to its stop
NextQuality ==
    \/ StartStream
    \/ StopStream
    \/ \E b \in Bandwidths : AdjustQuality(b)

SpecQuality == InitLive /\ [][NextQuality]_vars

\* ========================================================= speech services
\* A phoneme code is a sequence of one-character strings.
PhonemeChars == {"A", "a", "H", "h", "T", "t", "1", "x"}
Phonemes == UNION {[1..n -> PhonemeChars] : n \in 0..MaxPhonemeLen}

Digits == {"0", "1", "2", "3", "4", "5", "6", "7", "8", "9"}
\* str.upper() on the letters a-z
UpperOf ==
    "a" :> "A" @@ "b" :> "B" @@ "c" :> "C" @@ "d" :> "D" @@ "e" :> "E" @@
    "f" :> "F" @@ "g" :> "G" @@ "h" :> "H" @@ "i" :> "I" @@ "j" :> "J" @@
    "k" :> "K" @@ "l" :> "L" @@ "m" :> "M" @@ "n" :> "N" @@ "o" :> "O" @@
    "p" :> "P" @@ "q" :> "Q" @@ "r" :> "R" @@ "s" :> "S" @@ "t" :> "T" @@
    "u" :> "U" @@ "v" :> "V" @@ "w" :> "W" @@ "x" :> "X" @@ "y" :> "Y" @@
    "z" :> "Z"
Upper(c) == IF c \in DOMAIN UpperOf THEN UpperOf[c] ELSE c

RECURSIVE StripStress(_)
\* ''.join(c for c in phoneme.upper() if not c.isdigit())
StripStress(ph) ==
    IF ph = <<>> THEN <<>>
    ELSE IF Head(ph) \in Digits THEN StripStress(Tail(ph))
    ELSE <<Upper(Head(ph))>> \o StripStress(Tail(ph))

\* avatar/lipsync.py: class Viseme
Visemes == {"sil", "PP", "FF", "TH", "DD", "KK", "CH", "SS", "NN", "RR", "AA", "EE", "II", "OO", "UU"}
\* avatar/lipsync.py: VisemeMapping.PHONEME_TO_VISEME
PHONEME_TO_VISEME ==
    <<"P">> :> "PP" @@ <<"B">> :> "PP" @@ <<"M">> :> "PP" @@
    <<"F">> :> "FF" @@ <<"V">> :> "FF" @@ <<"T", "H">> :> "TH" @@
    <<"D", "H">> :> "TH" @@ <<"T">> :> "DD" @@ <<"D">> :> "DD" @@
    <<"L">> :> "DD" @@ <<"N">> :> "NN" @@ <<"N", "G">> :> "NN" @@
    <<"K">> :> "KK" @@ <<"G">> :> "KK" @@ <<"C", "H">> :> "CH" @@
    <<"J", "H">> :> "CH" @@ <<"S", "H">> :> "CH" @@ <<"Z", "H">> :> "CH" @@
    <<"S">> :> "SS" @@ <<"Z">> :> "SS" @@ <<"R">> :> "RR" @@
    <<"W">> :> "UU" @@ <<"Y">> :> "EE" @@ <<"H">> :> "sil" @@
    <<"H", "H">> :> "sil" @@ <<"A", "A">> :> "AA" @@ <<"A", "E">> :> "AA" @@
    <<"A", "H">> :> "AA" @@ <<"A", "O">> :> "OO" @@ <<"A", "W">> :> "AA" @@
    <<"A", "Y">> :> "AA" @@ <<"E", "H">> :> "EE" @@ <<"E", "R">> :> "RR" @@
    <<"E", "Y">> :> "EE" @@ <<"I", "H">> :> "II" @@ <<"I", "Y">> :> "II" @@
    <<"O", "W">> :> "OO" @@ <<"O", "Y">> :> "OO" @@ <<"U", "H">> :> "UU" @@
    <<"U", "W">> :> "UU"

GetViseme_CaseSensitive(phoneme) ==
    IF phoneme \in DOMAIN PHONEME_TO_VISEME
    THEN PHONEME_TO_VISEME[phoneme] ELSE "none"

\* VisemeMapping.get_viseme
GetViseme(phoneme) ==
    LET code == StripStress(phoneme)
    IN IF code \in DOMAIN PHONEME_TO_VISEME
       THEN PHONEME_TO_VISEME[code] ELSE "sil"

\* tts/alignment.py: the keys of VISEME_BLEND_SHAPES
AlignerVisemes == {"sil", "PP", "FF", "TH", "DD", "kk", "CH", "SS", "RR", "ww", "aa", "E", "I", "O", "U"}
\* tts/alignment.py: PHONEME_TO_VISEME
AlignerPhonemeToViseme ==
    <<>> :> "sil" @@ <<"s", "p">> :> "sil" @@ <<"s", "p", "n">> :> "sil" @@
    <<"S", "I", "L">> :> "sil" @@ <<"P">> :> "PP" @@ <<"B">> :> "PP" @@
    <<"M">> :> "PP" @@ <<"p">> :> "PP" @@ <<"b">> :> "PP" @@
    <<"m">> :> "PP" @@ <<"F">> :> "FF" @@ <<"V">> :> "FF" @@
    <<"f">> :> "FF" @@ <<"v">> :> "FF" @@ <<"T", "H">> :> "TH" @@
    <<"D", "H">> :> "TH" @@ <<"t", "h">> :> "TH" @@ <<"d", "h">> :> "TH" @@
    <<"T">> :> "DD" @@ <<"D">> :> "DD" @@ <<"N">> :> "DD" @@
    <<"L">> :> "DD" @@ <<"t">> :> "DD" @@ <<"d">> :> "DD" @@
    <<"n">> :> "DD" @@ <<"l">> :> "DD" @@ <<"S">> :> "SS" @@
    <<"Z">> :> "SS" @@ <<"s">> :> "SS" @@ <<"z">> :> "SS" @@
    <<"S", "H">> :> "CH" @@ <<"Z", "H">> :> "CH" @@ <<"C", "H">> :> "CH" @@
    <<"J", "H">> :> "CH" @@ <<"s", "h">> :> "CH" @@ <<"z", "h">> :> "CH" @@
    <<"c", "h">> :> "CH" @@ <<"j", "h">> :> "CH" @@ <<"K">> :> "kk" @@
    <<"G">> :> "kk" @@ <<"N", "G">> :> "kk" @@ <<"k">> :> "kk" @@
    <<"g">> :> "kk" @@ <<"n", "g">> :> "kk" @@ <<"H", "H">> :> "kk" @@
    <<"H">> :> "kk" @@ <<"h", "h">> :> "kk" @@ <<"h">> :> "kk" @@
    <<"R">> :> "RR" @@ <<"W">> :> "ww" @@ <<"Y">> :> "CH" @@
    <<"r">> :> "RR" @@ <<"w">> :> "ww" @@ <<"y">> :> "CH" @@
    <<"A", "A">> :> "aa" @@ <<"A", "E">> :> "aa" @@ <<"A", "H">> :> "aa" @@
    <<"A", "O">> :> "aa" @@ <<"A", "W">> :> "aa" @@ <<"A", "Y">> :> "aa" @@
    <<"a", "a">> :> "aa" @@ <<"a", "e">> :> "aa" @@ <<"a", "h">> :> "aa" @@
    <<"a", "o">> :> "aa" @@ <<"a", "w">> :> "aa" @@ <<"a", "y">> :> "aa" @@
    <<"E", "H">> :> "E" @@ <<"E", "R">> :> "E" @@ <<"E", "Y">> :> "E" @@
    <<"e", "h">> :> "E" @@ <<"e", "r">> :> "E" @@ <<"e", "y">> :> "E" @@
    <<"I", "H">> :> "I" @@ <<"I", "Y">> :> "I" @@ <<"i", "h">> :> "I" @@
    <<"i", "y">> :> "I" @@ <<"O", "W">> :> "O" @@ <<"O", "Y">> :> "O" @@
    <<"o", "w">> :> "O" @@ <<"o", "y">> :> "O" @@ <<"U", "H">> :> "U" @@
    <<"U", "W">> :> "U" @@ <<"u", "h">> :> "U" @@ <<"u", "w">> :> "U"

\* AudioAligner.phonemes_to_visemes, line 411: the viseme of one phoneme
AlignerViseme(phoneme) ==
    IF phoneme \in DOMAIN AlignerPhonemeToViseme
    THEN AlignerPhonemeToViseme[phoneme] ELSE "sil"

InitViseme ==
    /\ NoPipeline
    /\ live = NoLive
    /\ pair = NoPair
    /\ \E ph \in Phonemes :
         speech = [kind |-> "viseme", phoneme |-> ph, calls |-> 0,
                   first |-> "", viseme |-> "", aligner_viseme |-> ""]

\* one call of VisemeMapping.get_viseme(phoneme)
CallGetViseme ==
    /\ speech.kind = "viseme" /\ speech.calls < 2
    /\ speech' = [speech EXCEPT
                     !.calls = @ + 1,
                     !.first = IF speech.calls = 0 THEN GetViseme(speech.phoneme) ELSE @,
                     !.viseme = GetViseme(speech.phoneme)]
    /\ UNCHANGED <<Pipeline, live, pair>>

\* phonemes_to_visemes([phoneme], ...): the "viseme" of its one entry
CallPhonemesToVisemes ==
    /\ speech.kind = "viseme" /\ speech.aligner_viseme = ""
    /\ speech' = [speech EXCEPT !.aligner_viseme = AlignerViseme(speech.phoneme)]
    /\ UNCHANGED <<Pipeline, live, pair>>

NextViseme ==
    \/ CallGetViseme
    \/ CallPhonemesToVisemes

SpecViseme == InitViseme /\ [][NextViseme]_vars

\* ------------------------------------------------------------ word timings
\* Times are exact fractions: every timing of one result is a numerator over
\* the common denominator `den` of that result.
TextChars == {"a", " "}
Texts == UNION {[1..n -> TextChars] : n \in 0..MaxTextLen}
\* sample_rate: int = 22050
SampleRate == 22050
\* len(audio): an empty buffer, half a second, one second
AudioSamples == {0, 11025, 22050}

RECURSIVE TotalChars(_)
\* sum(len(w) for w in words)
TotalChars(words) ==
    IF words = <<>> THEN 0 ELSE Len(Head(words)) + TotalChars(Tail(words))

RECURSIVE TimingLoop(_, _)
\* the loop over the words: each word starts at current_time and ends at
\* current_time + word_duration, then current_time += word_duration
TimingLoop(durations, current_time) ==
    IF durations = <<>> THEN <<>>
    ELSE <<[start |-> current_time, end |-> current_time + Head(durations)]>>
         \o TimingLoop(Tail(durations), current_time + Head(durations))

NoTimings == [den |-> 1, duration |-> 0, lens |-> <<>>, slots |-> <<>>]

EstimateTimings_EvenSplit(text, samples) ==
    LET words == Words(text)
    IN IF words = <<>> THEN NoTimings
       ELSE [den |-> SampleRate * Len(words),
             duration |-> samples * Len(words),
             lens |-> [i \in 1..Len(words) |-> Len(words[i])],
             slots |-> TimingLoop([i \in 1..Len(words) |-> samples], 0)]

\* AudioAligner._estimate_timings, lines 236-275: duration = len(audio) /
\* sample_rate, word_duration = duration * len(word) / total_chars
EstimateTimings(text, samples) ==
    LET words == Words(text)
        total_chars == IF TotalChars(words) = 0 THEN 1 ELSE TotalChars(words)
    IN IF words = <<>> THEN NoTimings
       ELSE [den |-> SampleRate * total_chars,
             duration |-> samples * total_chars,
             lens |-> [i \in 1..Len(words) |-> Len(words[i])],
             slots |-> TimingLoop([i \in 1..Len(words) |-> samples * Len(words[i])], 0)]

\* TTSEngine._estimate_word_timings(text, 0.0, duration) with the duration
\* samples / sample_rate: word_duration = (len(word) / total_chars) * duration
EstimateWordTimings(text, samples) ==
    LET words == Words(text)
        total_chars == TotalChars(words)
    IN IF words = <<>> \/ total_chars = 0 THEN NoTimings
       ELSE [den |-> SampleRate * total_chars,
             duration |-> samples * total_chars,
             lens |-> [i \in 1..Len(words) |-> Len(words[i])],
             slots |-> TimingLoop([i \in 1..Len(words) |-> samples * Len(words[i])], 0)]

\* video_generation_task, lines 488 and 499-510: duration = len(script) / 15,
\* word_duration = duration / len(words)
FallbackWordTimings(script) ==
    LET words == Words(script)
    IN IF words = <<>> THEN [NoTimings EXCEPT !.den = CharsPerSecond,
                                              !.duration = Len(script)]
       ELSE [den |-> CharsPerSecond * Len(words),
             duration |-> Len(script) * Len(words),
             lens |-> [i \in 1..Len(words) |-> Len(words[i])],
             slots |-> TimingLoop([i \in 1..Len(words) |-> Len(script)], 0)]

InitAlign ==
    /\ NoPipeline
    /\ live = NoLive
    /\ pair = NoPair
    /\ \E text \in Texts, n \in AudioSamples :
         speech = [kind |-> "align", text |-> text, samples |-> n,
                   by |-> "", timings |-> NoTimings]

\* AudioAligner.align without a Whisper model (lines 156-183)
Align ==
    /\ speech.kind = "align" /\ speech.by = ""
    /\ speech' = [speech EXCEPT !.by = "align",
                                !.timings = EstimateTimings(speech.text, speech.samples)]
    /\ UNCHANGED <<Pipeline, live, pair>>

\* TTSEngine._estimate_word_timings
EngineWordTimings ==
    /\ speech.kind = "align" /\ speech.by = ""
    /\ speech' = [speech EXCEPT !.by = "engine",
                                !.timings = EstimateWordTimings(speech.text, speech.samples)]
    /\ UNCHANGED <<Pipeline, live, pair>>

\* the orchestrator's fallback after a failed synthesis; the script has passed
\* the check of line 444, it is not blank
OrchestratorWordTimings ==
    /\ speech.kind = "align" /\ speech.by = ""
    /\ ~IsBlank(speech.text)
    /\ speech' = [speech EXCEPT !.by = "orchestrator",
                                !.timings = FallbackWordTimings(speech.text)]
    /\ UNCHANGED <<Pipeline, live, pair>>

NextAlign ==
    \/ Align
    \/ EngineWordTimings
    \/ OrchestratorWordTimings

SpecAlign == InitAlign /\ [][NextAlign]_vars

\* ----------------------------------------------- lip sync (avatar/lipsync.py)
\* Times of the lip sync are tenths of a second.  The audio buffer is given
\* by its tenths: one entry per 2205 samples at 22050 Hz, holding the level
\* (RMS, in thousandths of full scale) of the samples of that tenth.
\* Intensities and amplitudes are thousandths; a blend-shape value is a
\* numerator over ShapeDen.
MaxTenths == 3           \* longest audio and latest word boundary, in tenths
LipWords == {<<"a">>, <<"t", "h", "e">>}
LipLevels == {100, 1000}
LipFps == {10, 30}
LipWordTimings ==
    [word : LipWords, start : 0..MaxTenths, end : 0..MaxTenths]
\* no word timing, one, or two of different words
LipTimingLists ==
    {<<>>} \cup {<<a>> : a \in LipWordTimings}
           \cup {<<a, b>> : a \in {t \in LipWordTimings : t.word = <<"a">>},
                            b \in {t \in LipWordTimings : t.word # <<"a">>}}
LipAudios == UNION {[1..n -> LipLevels] : n \in 0..MaxTenths}
ShapeDen == 20000000

Channels == {"jawOpen", "mouthOpen", "mouthWide", "mouthPucker", "mouthSmile", "lipPress"}
Shape(j, o, w, p, s, l) ==
    [jawOpen |-> j, mouthOpen |-> o, mouthWide |-> w, mouthPucker |-> p,
     mouthSmile |-> s, lipPress |-> l]
\* VISEME_BLEND_SHAPES, in tenths
VISEME_BLEND_SHAPES ==
    "sil" :> Shape(0, 0, 0, 0, 0, 0) @@ "PP" :> Shape(0, 0, 1, 2, 0, 8) @@
    "FF" :> Shape(1, 1, 2, 0, 1, 0) @@ "TH" :> Shape(2, 2, 2, 0, 0, 0) @@
    "DD" :> Shape(3, 2, 2, 0, 1, 0) @@ "KK" :> Shape(4, 3, 2, 0, 0, 0) @@
    "CH" :> Shape(3, 2, 0, 5, 0, 0) @@ "SS" :> Shape(2, 1, 4, 0, 3, 0) @@
    "NN" :> Shape(2, 1, 2, 0, 0, 0) @@ "RR" :> Shape(3, 2, 0, 3, 0, 0) @@
    "AA" :> Shape(8, 7, 4, 0, 0, 0) @@ "EE" :> Shape(4, 3, 6, 0, 5, 0) @@
    "II" :> Shape(3, 2, 5, 0, 4, 0) @@ "OO" :> Shape(6, 5, 0, 6, 0, 0) @@
    "UU" :> Shape(4, 3, 0, 7, 0, 0)

\* _estimate_phonemes: the digraphs, the vowels and the consonants
LipDigraphs ==
    <<"t", "h">> :> <<"T", "H">> @@ <<"c", "h">> :> <<"C", "H">> @@
    <<"s", "h">> :> <<"S", "H">> @@ <<"n", "g">> :> <<"N", "G">> @@
    <<"w", "h">> :> <<"W">> @@ <<"p", "h">> :> <<"F">> @@
    <<"c", "k">> :> <<"K">>
LipLetters ==
    "a" :> <<"A", "A">> @@ "e" :> <<"E", "H">> @@ "i" :> <<"I", "Y">> @@
    "o" :> <<"O", "W">> @@ "u" :> <<"U", "W">> @@
    "b" :> <<"B">> @@ "c" :> <<"K">> @@ "d" :> <<"D">> @@ "f" :> <<"F">> @@
    "g" :> <<"G">> @@ "h" :> <<"H", "H">> @@ "j" :> <<"J", "H">> @@
    "k" :> <<"K">> @@ "l" :> <<"L">> @@ "m" :> <<"M">> @@ "n" :> <<"N">> @@
    "p" :> <<"P">> @@ "q" :> <<"K">> @@ "r" :> <<"R">> @@ "s" :> <<"S">> @@
    "t" :> <<"T">> @@ "v" :> <<"V">> @@ "w" :> <<"W">> @@ "x" :> <<"K">> @@
    "y" :> <<"Y">> @@ "z" :> <<"Z">>

RECURSIVE PhonemeScan(_)
\* the while loop of _estimate_phonemes over the rest of the word
PhonemeScan(word) ==
    IF word = <<>> THEN <<>>
    ELSE IF Len(word) >= 2 /\ SubSeq(word, 1, 2) \in DOMAIN LipDigraphs
    THEN <<LipDigraphs[SubSeq(word, 1, 2)]>> \o PhonemeScan(SubSeq(word, 3, Len(word)))
    ELSE IF Head(word) \in DOMAIN LipLetters
    THEN <<LipLetters[Head(word)]>> \o PhonemeScan(Tail(word))
    ELSE PhonemeScan(Tail(word))

\* LipSyncProcessor._estimate_phonemes
EstimatePhonemes(word) ==
    IF PhonemeScan(word) = <<>> THEN <<<<"A", "A">>>> ELSE PhonemeScan(word)

\* LipSyncProcessor._word_to_phonemes without a G2P model, for a word of
\* lower-case letters and digits
WordToPhonemes(word) ==
    LET letters == SelectSeq(word, LAMBDA c : c \in DOMAIN LipLetters)
    IN IF letters = <<>> THEN <<<<"S", "I", "L">>>>
       ELSE EstimatePhonemes(letters)

\* np.sin(x * np.pi) for x = p/q in [0, 1], in thousandths, by the rational
\* approximation 16x(1-x) / (5 - 4x(1-x)), which is within 0.002 of the sine
SinPi(p, q) == (16000 * p * (q - p)) \div (5 * q * q - 4 * p * (q - p))

\* the first word timing with start <= timestamp < end; times are given as
\* numerators over 10 * fps
RECURSIVE CurrentWord(_, _, _)
CurrentWord(word_timings, timestamp, fps) ==
    IF word_timings = <<>> THEN [word |-> <<>>, start |-> 0, end |-> 0]
    ELSE IF /\ Head(word_timings).start * fps <= timestamp
            /\ timestamp < Head(word_timings).end * fps
    THEN Head(word_timings)
    ELSE CurrentWord(Tail(word_timings), timestamp, fps)

\* LipSyncProcessor._get_viseme_at_time; timestamp = frame_idx / fps is the
\* numerator 10 * frame_idx over 10 * fps
GetVisemeAtTime(word_timings, frame_idx, fps) ==
    LET timestamp == 10 * frame_idx
        current_word == CurrentWord(word_timings, timestamp, fps)
        word_duration == (current_word.end - current_word.start) * fps
        phonemes == WordToPhonemes(current_word.word)
        \* word_progress * len(phonemes), over word_duration
        scaled == (timestamp - current_word.start * fps) * Len(phonemes)
        phoneme_idx == Min(scaled \div word_duration, Len(phonemes) - 1)
        phoneme_progress == scaled - phoneme_idx * word_duration
    IN IF word_duration <= 0 THEN [viseme |-> "sil", intensity |-> 0]
       ELSE IF phonemes = <<>> THEN [viseme |-> "AA", intensity |-> 500]
       ELSE [viseme |-> GetViseme(phonemes[phoneme_idx + 1]),
             intensity |-> 600 + (2 * SinPi(phoneme_progress, word_duration)) \div 5]

GetAmplitudeAtTime_NoCap(audio, frame_idx, fps) ==
    IF frame_idx >= Len(audio) * (fps \div 10) THEN 0
    ELSE audio[(frame_idx \div (fps \div 10)) + 1] * 4

\* LipSyncProcessor._get_amplitude_at_time: min(rms * 4, 1.0) of the samples
\* of the frame, which lie in one tenth of the audio for 10 and 30 fps
GetAmplitudeAtTime(audio, frame_idx, fps) ==
    IF frame_idx >= Len(audio) * (fps \div 10) THEN 0
    ELSE Min(audio[(frame_idx \div (fps \div 10)) + 1] * 4, 1000)

\* LipSyncProcessor._calculate_blend_shapes
CalculateBlendShapes(viseme, intensity, amplitude) ==
    [key \in Channels |->
        IF key \in {"jawOpen", "mouthOpen"}
        THEN VISEME_BLEND_SHAPES[viseme][key] * intensity * (1000 + amplitude)
        ELSE VISEME_BLEND_SHAPES[viseme][key] * intensity * 2000]

\* the duration of process_audio in tenths: the latest "end" of the word
\* timings if there are any, else len(audio_data) / sample_rate; at least 0.1
LipDuration(word_timings, audio) ==
    LET ends == {word_timings[i].end : i \in DOMAIN word_timings}
    IN Max(IF word_timings # <<>>
           THEN CHOOSE e \in ends : \A x \in ends : x <= e
           ELSE Len(audio),
           1)

\* total_frames = int(duration * fps)
TotalFrames(word_timings, audio, fps) ==
    (LipDuration(word_timings, audio) * fps) \div 10

\* the frames of the loop of process_audio, before smoothing
RawFrames(word_timings, audio, fps) ==
    [i \in 1..TotalFrames(word_timings, audio, fps) |->
        LET at == GetVisemeAtTime(word_timings, i - 1, fps)
            amplitude == GetAmplitudeAtTime(audio, i - 1, fps)
        IN [frame |-> i - 1, viseme |-> at.viseme, intensity |-> at.intensity,
            amplitude |-> amplitude,
            blend_shapes |-> CalculateBlendShapes(at.viseme, at.intensity, amplitude)]]

RECURSIVE SumValues(_, _, _)
SumValues(values, lo, hi) ==
    IF lo > hi THEN 0 ELSE values[lo] + SumValues(values, lo + 1, hi)

\* smooth_array: the mean of values[max(0, i - w) : min(len, i + w + 1)], kept
\* as the sum over the number of values
SmoothArray(values, window_size) ==
    [i \in DOMAIN values |->
        LET lo == Max(1, i - window_size)
            hi == Min(Len(values), i + window_size)
        IN [num |-> SumValues(values, lo, hi), den |-> hi - lo + 1]]

\* LipSyncProcessor._smooth_frames for "intensity" and the blend shapes; the
\* legacy keys mouth_open, mouth_wide and jaw_open are left out
SmoothFrames(frames, fps) ==
    LET window_size == Max(1, (4 * fps) \div 100)
        intensity == SmoothArray([i \in DOMAIN frames |-> frames[i].intensity],
                                 window_size)
        shapes == [key \in Channels |->
                      SmoothArray([i \in DOMAIN frames |-> frames[i].blend_shapes[key]],
                                  window_size)]
    IN [i \in DOMAIN frames |->
          IF Len(frames) < 3
          THEN [frames[i] EXCEPT
                   !.intensity = [num |-> @, den |-> 1],
                   !.blend_shapes = [key \in Channels |-> [num |-> @[key], den |-> 1]]]
          ELSE [frames[i] EXCEPT
                   !.intensity = intensity[i],
                   !.blend_shapes = [key \in Channels |-> shapes[key][i]]]]

InitLipSync ==
    /\ NoPipeline
    /\ live = NoLive
    /\ pair = NoPair
    /\ \E word_timings \in LipTimingLists, audio \in LipAudios, fps \in LipFps :
         speech = [kind |-> "lipsync", word_timings |-> word_timings,
                   audio |-> audio, fps |-> fps, done |-> FALSE, frames |-> <<>>]

\* LipSyncProcessor.process_audio(audio_data, 22050, word_timings, fps)
ProcessAudio ==
    /\ speech.kind = "lipsync" /\ ~speech.done
    /\ speech' = [speech EXCEPT
                     !.done = TRUE,
                     !.frames = SmoothFrames(RawFrames(speech.word_timings,
                                                       speech.audio, speech.fps),
                                             speech.fps)]
    /\ UNCHANGED <<Pipeline, live, pair>>

NextLipSync == ProcessAudio

SpecLipSync == InitLipSync /\ [][NextLipSync]_vars

\* ------------------------------------------------- two jobs of one user
\* Two jobs of the same user, each executed by one of the two pool processes
\* (worker_concurrency=2): job 1 is a full job of video 1, job 2 is a preview
\* job of video 1 or a full job of video 2.  Only the rows and objects the two
\* executions share are kept: users.credits, the Video rows and the stored
\* objects; retries are not explored.
PairJobs == {1, 2}
PairVideos == {1, 2}
PairBalances == {10, 20}
PairEstimates == {5, 10}         \* credits_estimated of a full job
PairVideoRow == [status |-> "draft", video_url |-> "", preview_url |-> ""]
PairSession == [credits |-> 0, creditsOrig |-> 0,
                video |-> PairVideoRow, videoOrig |-> PairVideoRow]
\* the second job: a preview of video 1 (credits_estimated 0) or a full job of
\* video 2
PairSecondJobs ==
    {[video |-> 1, preview |-> TRUE, credits_estimated |-> 0]}
    \cup {[video |-> 2, preview |-> FALSE, credits_estimated |-> e] : e \in PairEstimates}

PairJob(shape) ==
    [video |-> shape.video, preview |-> shape.preview,
     credits_estimated |-> shape.credits_estimated,
     status |-> "absent", pc |-> "idle", sess |-> PairSession]

\* video_key = f"videos/{video.user_id}/{video_id}.mp4": one key per video
PairKey(j) == pair.jobs[j].video

\* estimated_credits = job.credits_estimated or 10
PairEstimated(j) ==
    IF pair.jobs[j].credits_estimated = 0 THEN DefaultEstimate
    ELSE pair.jobs[j].credits_estimated

InitPair ==
    /\ NoPipeline
    /\ live = NoLive
    /\ speech = NoSpeech
    /\ \E balance \in PairBalances, e \in PairEstimates, second \in PairSecondJobs :
         pair = [kind |-> "jobs", initial |-> balance, credits |-> balance,
                 videos |-> [v \in PairVideos |-> PairVideoRow],
                 objects |-> [v \in PairVideos |-> 0],
                 jobs |-> <<PairJob([video |-> 1, preview |-> FALSE,
                                     credits_estimated |-> e]),
                            PairJob(second)>>]

\* POST /videos/{id}/generate for job j, the task enqueued
PairGenerateVideo(j) ==
    LET v == pair.jobs[j].video
    IN /\ pair.kind = "jobs"
       /\ pair.jobs[j].status = "absent"
       /\ pair.videos[v].status \in {"draft", "failed"}
       /\ pair.credits >= pair.jobs[j].credits_estimated
       /\ pair' = [pair EXCEPT
                      !.jobs[j].status = "queued",
                      !.jobs[j].pc = "queued",
                      !.videos[v].status =
                          IF pair.jobs[j].preview THEN @ ELSE "queued"]
       /\ UNCHANGED <<Pipeline, live, speech>>

\* lines 373-406 of process(): the job is marked processing, Video and User
\* are loaded into the session and the credits are checked
PairInitJob(j) ==
    LET v == pair.jobs[j].video
    IN /\ pair.kind = "jobs"
       /\ pair.jobs[j].pc = "queued"
       /\ pair' = [pair EXCEPT
                      !.jobs[j].status = "processing",
                      !.jobs[j].sess = [credits |-> pair.credits,
                                        creditsOrig |-> pair.credits,
                                        video |-> pair.videos[v],
                                        videoOrig |-> pair.videos[v]],
                      !.jobs[j].pc = IF pair.credits < PairEstimated(j)
                                     THEN "except" ELSE "upload"]
       /\ UNCHANGED <<Pipeline, live, speech>>

\* lines 628-644: the rendered file is stored under the key of the video
PairUpload(j, ok) ==
    /\ pair.kind = "jobs"
    /\ pair.jobs[j].pc = "upload"
    /\ pair' = IF ok
               THEN [pair EXCEPT !.objects[PairKey(j)] = j,
                                 !.jobs[j].pc = "finalize"]
               ELSE [pair EXCEPT !.jobs[j].pc = "except"]
    /\ UNCHANGED <<Pipeline, live, speech>>

\* db.commit() of the session of job j: the changed attributes are written
PairCommit(j, s) ==
    [pair EXCEPT
        !.credits = IF s.credits # s.creditsOrig THEN s.credits ELSE @,
        !.videos[pair.jobs[j].video] = Flush(@, s.video, s.videoOrig),
        !.jobs[j].sess = [s EXCEPT !.creditsOrig = s.credits,
                                   !.videoOrig = s.video]]

\* lines 648-706: user.credits -= credits_used unless the job is a preview,
\* the Video is updated, the job is completed, commit
PairFinalize(j) ==
    /\ pair.kind = "jobs"
    /\ pair.jobs[j].pc = "finalize"
    /\ LET s0 == pair.jobs[j].sess
           s1 == IF pair.jobs[j].preview THEN s0
                 ELSE [s0 EXCEPT !.credits = @ - PairEstimated(j)]
           s2 == IF pair.jobs[j].preview
                 THEN [s1 EXCEPT !.video.preview_url = "key"]
                 ELSE [s1 EXCEPT !.video.status = "completed",
                                 !.video.video_url = "key"]
       IN pair' = [PairCommit(j, s2) EXCEPT !.jobs[j].status = "completed",
                                            !.jobs[j].pc = "done"]
    /\ UNCHANGED <<Pipeline, live, speech>>

\* lines 708-722: the job and the video are marked failed, commit
PairExcept(j) ==
    /\ pair.kind = "jobs"
    /\ pair.jobs[j].pc = "except"
    /\ LET s1 == [pair.jobs[j].sess EXCEPT !.video.status = "failed"]
       IN pair' = [PairCommit(j, s1) EXCEPT !.jobs[j].status = "failed",
                                            !.jobs[j].pc = "done"]
    /\ UNCHANGED <<Pipeline, live, speech>>

NextPair ==
    \/ \E j \in PairJobs : PairGenerateVideo(j)
    \/ \E j \in PairJobs : PairInitJob(j)
    \/ \E j \in PairJobs, ok \in BOOLEAN : PairUpload(j, ok)
    \/ \E j \in PairJobs : PairFinalize(j)
    \/ \E j \in PairJobs : PairExcept(j)

SpecPair == InitPair /\ [][NextPair]_vars

\* ------------------------------------------- one response and its audio
\* One response of a live session from process_text to the last frame of
\* _stream_response, with the quality of the session adjusted at any time.
\* The audio of the response is a buffer of whole tenths of a second with one
\* word spoken over all of it.
SpanAudios == {[i \in 1..n |-> 100] : n \in 1..MaxTenths}
SpanWordTimings(audio) == <<[word |-> <<"a">>, start |-> 0, end |-> Len(audio)]>>

InitSpan ==
    /\ NoPipeline
    /\ speech = NoSpeech
    /\ pair = NoPair
    /\ \E audio \in SpanAudios :
         live = [kind |-> "response", config |-> DefaultStreamConfig,
                 audio |-> audio, pc |-> "message", fps |-> 0,
                 frames |-> 0, sent |-> 0]

\* adjust_quality for the session of the response
SpanAdjustQuality(bandwidth) ==
    /\ live.kind = "response"
    /\ live' = [live EXCEPT !.config = SelectQuality(bandwidth)]
    /\ UNCHANGED <<Pipeline, speech, pair>>

\* process_message, lines 405-418: process_text has answered; its lip-sync
\* frames come from process_audio(..., fps=30) (lines 141-146)
SpanProcessText ==
    /\ live.kind = "response" /\ live.pc = "message"
    /\ live' = [live EXCEPT
                   !.pc = "task",
                   !.frames = TotalFrames(SpanWordTimings(live.audio), live.audio, 30)]
    /\ UNCHANGED <<Pipeline, speech, pair>>

\* _stream_response, lines 431-444: frame_interval = 1.0 / session.config.fps,
\* then the audio is sent
SpanStreamBegin ==
    /\ live.kind = "response" /\ live.pc = "task"
    /\ live' = [live EXCEPT !.pc = "loop", !.fps = live.config.fps]
    /\ UNCHANGED <<Pipeline, speech, pair>>

\* _stream_response, lines 446-479: one lip-sync frame is rendered at the
\* session's current width and height and sent, then the loop sleeps up to
\* frame_interval
SpanFrame ==
    /\ live.kind = "response" /\ live.pc = "loop"
    /\ live' = IF live.sent = live.frames
               THEN [live EXCEPT !.pc = "done"]
               ELSE [live EXCEPT !.sent = @ + 1]
    /\ UNCHANGED <<Pipeline, speech, pair>>

NextSpan ==
    \/ \E b \in Bandwidths : SpanAdjustQuality(b)
    \/ SpanProcessText
    \/ SpanStreamBegin
    \/ SpanFrame

SpecSpan == InitSpan /\ [][NextSpan]_vars

\* ------------------------------------------ avatar service: render jobs
\* The renders the avatar service is asked for under one job id (the
\* orchestrator always uses "<job_id>_render", also when the job is executed
\* again).  render_progress[job_id] and temp/<job_id>_output.mp4 are kept with
\* the number of the render that wrote them.
MaxRenders == 2          \* POST /render requests with the same job id
Renders == 1..MaxRenders
NoProgress == [status |-> "none", by |-> 0]
NoReply == [status |-> "none", by |-> 0, at |-> 0, finished |-> FALSE]

InitRender ==
    /\ NoPipeline
    /\ live = NoLive
    /\ pair = NoPair
    /\ speech = [kind |-> "render", accepted |-> 0,
                 tasks |-> [r \in Renders |-> "none"],
                 progress |-> NoProgress, output |-> 0, reply |-> NoReply]

\* POST /render, lines 248-273: asyncio.create_task(_render_video_task(...));
\* render_progress[job_id] is left as it is.  The event loop runs the first
\* step of a created task before it handles a request that arrives later.
RenderVideo ==
    /\ speech.kind = "render" /\ speech.accepted < MaxRenders
    /\ \A r \in Renders : speech.tasks[r] # "created"
    /\ speech' = [speech EXCEPT !.accepted = @ + 1,
                                !.tasks[speech.accepted + 1] = "created"]
    /\ UNCHANGED <<Pipeline, live, pair>>

\* _render_video_task up to the first progress callback of render_video
\* ("Loading audio", progress 0.05)
RenderTaskBegin(r) ==
    /\ speech.kind = "render" /\ speech.tasks[r] = "created"
    /\ speech' = [speech EXCEPT !.tasks[r] = "running",
                                !.progress = [status |-> "processing", by |-> r]]
    /\ UNCHANGED <<Pipeline, live, pair>>

\* the rest of render_video: the file is encoded to output_path and the
\* progress becomes "Complete" with progress 1.0, or an exception makes
\* _render_video_task store the "Failed" entry (lines 297-307)
RenderTaskEnd(r, ok) ==
    /\ speech.kind = "render" /\ speech.tasks[r] = "running"
    /\ speech' = IF ok
                 THEN [speech EXCEPT !.tasks[r] = "done", !.output = r,
                                     !.progress = [status |-> "completed", by |-> r]]
                 ELSE [speech EXCEPT !.tasks[r] = "failed",
                                     !.progress = [status |-> "failed", by |-> r]]
    /\ UNCHANGED <<Pipeline, live, pair>>

\* GET /render/{job_id}/status, lines 310-327, asked once the task of every
\* accepted request has taken its first step; `at` is the request the caller
\* asks about, `finished` whether its render has written its output
GetRenderStatus ==
    /\ speech.kind = "render"
    /\ \A r \in Renders : speech.tasks[r] # "created"
    /\ speech' = [speech EXCEPT
                     !.reply = [status |-> IF speech.progress.status = "none"
                                           THEN "404" ELSE speech.progress.status,
                                by |-> speech.progress.by,
                                at |-> speech.accepted,
                                finished |-> /\ speech.accepted > 0
                                             /\ speech.tasks[speech.accepted] = "done"]]
    /\ UNCHANGED <<Pipeline, live, pair>>

NextRender ==
    \/ RenderVideo
    \/ \E r \in Renders : RenderTaskBegin(r)
    \/ \E r \in Renders, ok \in BOOLEAN : RenderTaskEnd(r, ok)
    \/ GetRenderStatus

SpecRender == InitRender /\ [][NextRender]_vars

\* --------------------------------------------------- signaling server
\* The WebSocket connections of SignalingServer: each has the session_id and
\* the user_id of its URL.  self.sessions maps a session id to the RTCSession
\* of one connection (0: no entry), self.user_sessions a user to session ids.
Conns == {1, 2}
SessionIds == {"s1", "s2"}
UserIds == {"u1", "u2"}
NoConn == [pc |-> "none", session_id |-> "", user_id |-> "", peer |-> FALSE, popped |-> 0]

InitSignaling ==
    /\ NoPipeline
    /\ speech = NoSpeech
    /\ pair = NoPair
    /\ live = [kind |-> "signaling",
               conns |-> [c \in Conns |-> NoConn],
               sessions |-> [s \in SessionIds |-> 0],
               user_sessions |-> [u \in UserIds |-> {}]]

\* handle_connection, lines 80-95: the session is created and registered
HandleConnection(c, session_id, user_id) ==
    /\ live.kind = "signaling" /\ live.conns[c].pc = "none"
    /\ live' = [live EXCEPT
                   !.conns[c] = [NoConn EXCEPT !.pc = "open",
                                               !.session_id = session_id,
                                               !.user_id = user_id],
                   !.sessions[session_id] = c,
                   !.user_sessions[user_id] = @ \cup {session_id}]
    /\ UNCHANGED <<Pipeline, speech, pair>>

\* an offer of the client: the session of the connection gets a peer connection
HandleOffer(c) ==
    /\ live.kind = "signaling" /\ live.conns[c].pc = "open" /\ ~live.conns[c].peer
    /\ live' = [live EXCEPT !.conns[c].peer = TRUE]
    /\ UNCHANGED <<Pipeline, speech, pair>>

\* _cleanup_session, lines 531-536, for the popped session of connection p
RemoveUserSession(l, p) ==
    [l EXCEPT !.user_sessions[l.conns[p].user_id] = @ \ {l.conns[p].session_id}]

\* the connection ends: the finally block calls _cleanup_session(session_id),
\* which pops whatever session is registered under the id and, when that
\* session has a peer connection, awaits its close
CleanupBegin(c) ==
    /\ live.kind = "signaling" /\ live.conns[c].pc = "open"
    /\ LET p == live.sessions[live.conns[c].session_id]
           l == [live EXCEPT !.sessions[live.conns[c].session_id] = 0]
       IN live' = IF p = 0
                  THEN [l EXCEPT !.conns[c].pc = "closed"]
                  ELSE IF live.conns[p].peer
                  THEN [l EXCEPT !.conns[c].pc = "closing", !.conns[c].popped = p]
                  ELSE [RemoveUserSession(l, p) EXCEPT !.conns[c].pc = "closed"]
    /\ UNCHANGED <<Pipeline, speech, pair>>

\* _cleanup_session after peer_connection.close() has returned
CleanupEnd(c) ==
    /\ live.kind = "signaling" /\ live.conns[c].pc = "closing"
    /\ live' = [RemoveUserSession(live, live.conns[c].popped)
                   EXCEPT !.conns[c].pc = "closed"]
    /\ UNCHANGED <<Pipeline, speech, pair>>

NextSignaling ==
    \/ \E c \in Conns, s \in SessionIds, u \in UserIds : HandleConnection(c, s, u)
    \/ \E c \in Conns : HandleOffer(c)
    \/ \E c \in Conns : CleanupBegin(c)
    \/ \E c \in Conns : CleanupEnd(c)

SpecSignaling == InitSignaling /\ [][NextSignaling]_vars

\* ================================================================ properties

\* C1: once the Job's status is completed, failed or cancelled, no operation
\* changes its status again.
C1_TerminalStatusIsFinal ==
    [][job.status \in TerminalStatuses => job'.status = job.status]_vars

\* C2: after cancel_job has cancelled a job that a worker is executing, the job
\* gets no result, no credits are deducted and no error is recorded.
C2_CancelledWorkIsDiscarded ==
    [][hist.cancelledRunning =>
          /\ job'.result = job.result
          /\ job'.error = job.error
          /\ userCredits' = userCredits]_vars

\* C3: over all executions of the task for the job (retries, re-deliveries) the
\* user's credits are deducted at most once.
C3_CreditsDeductedAtMostOnce == hist.deductions <= 1

\* C4: while the job has been processing and has not reached a terminal status,
\* the committed progress never decreases from one commit to the next.
C4_ProgressNeverDecreases ==
    [][(job.status = "processing" /\ ~hist.everTerminal)
          => job'.progress >= job.progress]_vars

\* C5: when every call of the speech-synthesis service failed, the execution
\* can only fail in the upload, and when it does not, the job is completed and
\* the recorded duration is len(script)/15.
C5_TtsFallbackCompletes ==
    \A w \in Workers :
        loc[w].tts_failed =>
            /\ pc[w] = "except" => loc[w].exc \in UploadErrors
            /\ (pc[w] \in {"finally", "return"} /\ loc[w].exc = "") =>
                  /\ job.status = "completed"
                  /\ job.result.duration.num = Len(loc[w].script)
                  /\ job.result.duration.den = 15
C5_Witness ==
    \E w \in Workers :
        /\ loc[w].tts_failed /\ ~loc[w].render_failed
        /\ pc[w] = "return" /\ loc[w].exc = ""
        /\ job.status = "completed"

C7_RenderFallbackIsUsable ==
    \A w \in Workers :
        (/\ loc[w].render_failed \/ loc[w].artifact = "error_body"
         /\ pc[w] = "return" /\ loc[w].exc = "")
            => storage["video"] = "placeholder"

C9_BlankScriptNeverProcessing ==
    job.error = "Script is empty or missing" => ~hist.everProcessing

\* C10: when video_generation_task returns, the scratch directory of the job
\* does not exist.
C10_ScratchReleasedOnReturn ==
    \A w \in Workers : pc[w] = "return" => ~tempDir

\* C11: at any time at most one worker is executing video_generation_task for
\* the job.
C11_OneExecutionAtATime ==
    Cardinality({w \in Workers : pc[w] # "idle"}) <= 1

\* C12: the render step is never abandoned because a status poll was answered
\* with "not found" or "unavailable" (a status other than 200).
C12_NotFoundPollTolerated ==
    \A w \in Workers : pc[w] = "fallback" => loc[w].status_reply # "not_200"

\* the tolerance of the cadence, in ticks
Tolerance == 1

\* C13: every frame-emission loop sleeps max(0, interval - elapsed) after a
\* frame, so two consecutive frames start max(interval, elapsed) apart.
C13_LoopsAreClockPaced ==
    (live.kind = "loop" /\ live.frame > 0) =>
        /\ live.sleep = Max(0, FrameInterval(live.fps) - live.elapsed)
        /\ live.gap = Max(FrameInterval(live.fps), live.elapsed)

\* C14: in StreamManager._stream_response two consecutive frames are never
\* more than 1/fps plus the tolerance apart, however long a render takes.
C14_CadenceBoundedUnderSlowRender ==
    (live.kind = "loop" /\ live.loop = "_stream_response" /\ live.frame > 0) =>
        live.gap <= FrameInterval(live.fps) + Tolerance

\* the four rungs of the quality ladder, lowest first
C15_Ladder == <<Quality(640, 360, 15, 300000), Quality(854, 480, 24, 700000),
                Quality(1280, 720, 30, 1500000), Quality(1920, 1080, 30, 3000000)>>
C15_Rung(bandwidth) ==
    IF bandwidth < 500000 THEN 1
    ELSE IF bandwidth < 1000000 THEN 2
    ELSE IF bandwidth < 2500000 THEN 3 ELSE 4

\* C15: after adjust_quality the session's (width, height, fps, video_bitrate)
\* is the rung of the reported bandwidth, one of four, and a report of a larger
\* bandwidth than the one before never selects a lower rung than it did.
C15_QualityLadder ==
    (live.kind = "manager" /\ live.bandwidth >= 0) =>
        /\ live.session.config = C15_Ladder[C15_Rung(live.bandwidth)]
        /\ (live.previous.bandwidth >= 0
               /\ live.previous.bandwidth <= live.bandwidth) =>
              \E i, j \in 1..4 : /\ i <= j
                                 /\ live.previous.config = C15_Ladder[i]
                                 /\ live.session.config = C15_Ladder[j]
C15_Witness ==
    /\ live.kind = "manager" /\ live.registered
    /\ live.previous.bandwidth = 499999
    /\ live.previous.config = Quality(640, 360, 15, 300000)
    /\ live.bandwidth = 500000
    /\ live.session.config = Quality(854, 480, 24, 700000)

C17_SessionEndsAfterFailures ==
    (live.kind = "manager" /\ live.failures > FailureThreshold) =>
        ~live.session.is_active

C19_WordTimingsOrdered ==
    speech.kind = "align" =>
        LET slots == speech.timings.slots
        IN /\ \A i \in 1..Len(slots) : slots[i].end > slots[i].start
           /\ \A i \in 1..(Len(slots) - 1) : slots[i + 1].start >= slots[i].end

\* C20: without a Whisper model align() gives word i the slot
\* duration * len(word_i) / total_chars; the first slot starts at 0, each slot
\* starts where the previous one ends, the last one ends at the duration, and
\* a longer word never gets a shorter slot.
C20_SlotsProportionalToChars ==
    (speech.kind = "align" /\ speech.by = "align") =>
        LET t == speech.timings
            n == Len(t.slots)
            chars == TotalChars(Words(speech.text))
        IN /\ n = Len(Words(speech.text))
           \* slot_i = (samples / SampleRate) * len_i / chars, as a numerator
           \* over the denominator SampleRate * chars
           /\ n > 0 => t.den = SampleRate * chars
           /\ \A i \in 1..n :
                  /\ t.lens[i] = Len(Words(speech.text)[i])
                  /\ t.slots[i].end - t.slots[i].start = speech.samples * t.lens[i]
           /\ n > 0 => /\ t.slots[1].start = 0
                       /\ t.slots[n].end = speech.samples * chars
           /\ \A i \in 1..(n - 1) : t.slots[i + 1].start = t.slots[i].end
           /\ \A i, j \in 1..n :
                  t.lens[i] >= t.lens[j] =>
                      t.slots[i].end - t.slots[i].start
                          >= t.slots[j].end - t.slots[j].start
C20_Witness ==
    /\ speech.kind = "align" /\ speech.by = "align"
    /\ speech.text = <<"a", "a", " ", "a">>
    /\ speech.samples = 22050
    /\ speech.timings.den = 3 * SampleRate
    /\ speech.timings.slots = <<[start |-> 0, end |-> 44100],
                                [start |-> 44100, end |-> 66150]>>

\* C21: process_audio returns floor(duration * fps) frames, where duration is
\* the larger of the last word's end and the length of the audio, at least
\* 0.1 s, so that the frames cover the whole audio.
C21_FramesCoverAudio ==
    (speech.kind = "lipsync" /\ speech.done) =>
        LET ends == {speech.word_timings[i].end : i \in DOMAIN speech.word_timings}
                    \cup {Len(speech.audio), 1}
            duration == CHOOSE e \in ends : \A x \in ends : x <= e
        IN Len(speech.frames) = (duration * speech.fps) \div 10

\* the largest value the viseme table gives each channel, in tenths
C22_Highest ==
    [key \in Channels |->
        CHOOSE m \in 0..10 :
            /\ \E v \in Visemes : VISEME_BLEND_SHAPES[v][key] = m
            /\ \A v \in Visemes : VISEME_BLEND_SHAPES[v][key] <= m]

\* C22: after smoothing, every frame of process_audio has an intensity in
\* [0,1] and every blend-shape value in [0,1] and not above the largest value
\* the viseme table gives that channel.
C22_FramesInRange ==
    (speech.kind = "lipsync" /\ speech.done) =>
        \A i \in DOMAIN speech.frames :
            LET f == speech.frames[i]
            IN /\ 0 <= f.intensity.num
               /\ f.intensity.num <= 1000 * f.intensity.den
               /\ \A key \in Channels :
                    /\ 0 <= f.blend_shapes[key].num
                    /\ f.blend_shapes[key].num <= ShapeDen * f.blend_shapes[key].den
                    /\ 10 * f.blend_shapes[key].num
                         <= C22_Highest[key] * ShapeDen * f.blend_shapes[key].den

\* a loud open vowel at the peak of its envelope, smoothed with its neighbours
C22_Witness ==
    /\ speech.kind = "lipsync" /\ speech.done
    /\ Len(speech.frames) >= 3
    /\ \E i \in DOMAIN speech.frames :
         /\ speech.frames[i].viseme = "AA"
         /\ speech.frames[i].amplitude = 1000
         /\ speech.frames[i].intensity.den = 3
         /\ speech.frames[i].intensity.num > 0
         /\ speech.frames[i].blend_shapes["jawOpen"].num > 0

\* C23: a job that generate_video has committed is eventually executed (or
\* cancelled by its owner), also when the task could not be enqueued: the
\* periodic process_pending_jobs enqueues it.
C23_SubmittedJobIsExecuted ==
    (job.status = "queued") ~> (hist.everProcessing \/ job.status = "cancelled")

\* C24: no step taken while the job is a preview job changes the video's
\* status, video_url, audio_url or duration, whether the job completes or fails.
C24_PreviewLeavesVideoAlone ==
    [][jobInput.preview =>
          /\ video'.status = video.status
          /\ video'.video_url = video.video_url
          /\ video'.audio_url = video.audio_url
          /\ video'.duration = video.duration]_vars

\* C25: when two full jobs of one user have both completed, the user's balance
\* is the initial balance minus the credits of both jobs.
C25_NoLostDeduction ==
    (/\ pair.kind = "jobs"
     /\ \A j \in PairJobs : pair.jobs[j].status = "completed" /\ ~pair.jobs[j].preview)
    => pair.credits = pair.initial - PairEstimated(1) - PairEstimated(2)

\* C26: the object stored under the key of a completed video is the output of
\* a full job of that video, never the output of a preview job.
C26_StoredVideoIsFull ==
    pair.kind = "jobs" =>
        \A v \in PairVideos :
            pair.videos[v].status = "completed" =>
                /\ pair.objects[v] \in PairJobs
                /\ ~pair.jobs[pair.objects[v]].preview

\* C27: the streaming task of a later response of a session sends a frame
\* only when the task of the earlier response has no frame left to send.
C27_ResponsesNotInterleaved ==
    [][(/\ live.kind = "manager"
        /\ live.tasks[2].pc = "send"
        /\ live'.tasks[2].pc = "sleep")
       => \/ live.tasks[1].pc = "done"
          \/ live.tasks[1].pc = "loop" /\ live.tasks[1].left = 0
          \/ live.tasks[1].pc = "sleep" /\ live.tasks[1].left = 1]_vars

\* C30: when a response has been streamed to its end, the frames sent times
\* the frame interval of the loop differ from the duration of the audio by at
\* most one frame interval (sent / fps against tenths / 10).
C30_FramesSpanAudio ==
    (live.kind = "response" /\ live.pc = "done") =>
        /\ 10 * live.sent - Len(live.audio) * live.fps <= 10
        /\ Len(live.audio) * live.fps - 10 * live.sent <= 10

\* C28: GET /render/{job_id}/status answers "completed" only when the render
\* of the latest accepted request has finished and written its output, and
\* what it reports is never the entry of an earlier render.
C28_StatusIsOfThisRender ==
    speech.kind = "render" =>
        /\ speech.reply.status = "completed" => speech.reply.finished
        /\ speech.reply.status \in {"processing", "completed", "failed"}
              => speech.reply.by = speech.reply.at

\* C29: every connection of the signaling server that is still open has its
\* own session in sessions and its session id in user_sessions.
C29_OpenConnectionsRegistered ==
    live.kind = "signaling" =>
        \A c \in Conns :
            live.conns[c].pc = "open" =>
                /\ live.sessions[live.conns[c].session_id] = c
                /\ live.conns[c].session_id
                      \in live.user_sessions[live.conns[c].user_id]

====
